---- MODULE Spec2Model ----
(***************************************************************************)
(* State-machine model of the voxel demo: WorldManager (per-block-mesh and *)
(* instanced variants), InventoryManager, InputManager, MiningSystem and   *)
(* the MinecraftGame wiring (callbacks and the animate frame loop).        *)
(*                                                                         *)
(* Units.  A world coordinate is an integer number of TENTHS of a block,   *)
(* so the fractional offsets the code uses (0.1, 0.5) are exact: the cell  *)
(* with integer index c spans the coordinates 10c .. 10c+9.  Time is an    *)
(* integer number of THIRDS OF A MILLISECOND (3000 per second), the        *)
(* coarsest unit in which every 0.8 * hardness / efficiency of the         *)
(* catalogs is an integer.                                                 *)
(***************************************************************************)
EXTENDS Integers, Sequences, FiniteSets, TLC

VARIABLES
    meshWorld,   \* WorldManager (WorldManager.ts): world, objects, mesh allocation
    instWorld,   \* WorldManager (instanced variant): blockMap, counts, meshes
    inventory,   \* InventoryManager: slots, selectedSlot
    mining,      \* MiningSystem: breaking, progress, requiredTime, target
    input,       \* InputManager: isLocked, moveState, jump, sprint, listening;
                 \* held: the key the keyboard is auto-repeating
    ui,          \* MinecraftGame React state: isConsoleOpen, commandInput
    camera,      \* camera: what the centre ray points at (aim), eye position
    physics,     \* PhysicsEngine: onGround
    loop,        \* frame loop: running, the selector outline
    last,        \* the operation or event of the last step: op, args, ret
    budget       \* how many operations the bounded exploration has left

vars == <<meshWorld, instWorld, inventory, mining, input, ui, camera,
          physics, loop, last, budget>>

-----------------------------------------------------------------------------
(* Bounds of the exploration *)

\* number of WorldManager calls explored after construction (SpecWorld)
MaxWorldOps == 3

\* number of blocks the player places in one run of the game (Spec)
MaxPlaces == 1

\* number of commands the player submits in one run of the game (Spec)
MaxGives == 1

\* number of events and frames in one run of the game (Spec)
MaxSteps == 7

\* number of InventoryManager calls explored after construction (SpecInv)
MaxInvOps == 4

-----------------------------------------------------------------------------
(* Catalogs: constants.ts *)

BLOCK_TYPES == <<"grass", "dirt", "stone", "wood", "leaves", "sand", "glass", "tnt">>

TOOL_TYPES == <<"wooden_pickaxe", "stone_pickaxe">>

BlockTypeSet == {BLOCK_TYPES[i] : i \in 1..Len(BLOCK_TYPES)}

ToolTypeSet == {TOOL_TYPES[i] : i \in 1..Len(TOOL_TYPES)}

\* the modelled window of the world: integer cell indexes per axis
XCells == -1..0

YCells == -1..1

ZCells == -1..0

\* the block types the WorldManager calls of SpecWorld draw from
WorldTypes == {"stone", "glass"}

\* fractional offsets (tenths of a block, per axis) added to a cell's corner
\* to form the raw coordinates handed to the WorldManager
Fractions == {<<0, 5, 0>>, <<5, 0, 9>>}

-----------------------------------------------------------------------------
(* Helpers *)

Min(S) == CHOOSE m \in S : \A n \in S : m <= n

RECURSIVE SortedSeq(_)
SortedSeq(S) == IF S = {} THEN <<>>
                ELSE <<Min(S)>> \o SortedSeq(S \ {Min(S)})

\* Math.floor of a coordinate, in tenths: the greatest multiple of 10 <= v
FloorTrunc(v) == IF v >= 0 THEN (v \div 10) * 10 ELSE -(((-v) \div 10) * 10)

Floor(v) == (v \div 10) * 10

-----------------------------------------------------------------------------
(* WorldManager, per-block-mesh variant: systems/WorldManager.ts *)

NoMesh == [id |-> -1, position |-> <<0, 0, 0>>]

\* Map.get on a missing key
Undefined == [mesh |-> NoMesh, type |-> "undefined"]

\* `${Math.floor(x)},${Math.floor(y)},${Math.floor(z)}`: the key string is
\* the triple of floored components
getBlockKey(x, y, z) == <<Floor(x), Floor(y), Floor(z)>>

getBlock(w, x, y, z) ==
    LET key == getBlockKey(x, y, z)
    IN  IF key \in DOMAIN w.world THEN w.world[key] ELSE Undefined

\* materials holds one entry per BLOCKS type (loadTextures)
materials == BlockTypeSet

addBlockOverwrite(w, x, y, z, type) ==
    LET fx == Floor(x)
        fy == Floor(y)
        fz == Floor(z)
        key == getBlockKey(fx, fy, fz)
        mesh == [id |-> w.nextMesh, position |-> <<fx + 5, fy + 5, fz + 5>>]
    IN  IF type \notin materials THEN w
        ELSE [world |-> [k \in (DOMAIN w.world) \cup {key} |->
                            IF k = key THEN [mesh |-> mesh, type |-> type]
                            ELSE w.world[k]],
              objects |-> Append(w.objects, mesh),
              nextMesh |-> w.nextMesh + 1]

addBlock(w, x, y, z, type) ==
    LET fx == Floor(x)
        fy == Floor(y)
        fz == Floor(z)
        key == getBlockKey(fx, fy, fz)
        mesh == [id |-> w.nextMesh, position |-> <<fx + 5, fy + 5, fz + 5>>]
    IN  IF key \in DOMAIN w.world THEN w
        ELSE IF type \notin materials THEN w
        ELSE [world |-> [k \in (DOMAIN w.world) \cup {key} |->
                            IF k = key THEN [mesh |-> mesh, type |-> type]
                            ELSE w.world[k]],
              objects |-> Append(w.objects, mesh),
              nextMesh |-> w.nextMesh + 1]

\* Array.indexOf: the first index (1-based here) holding m, 0 when absent
IndexOf(seq, m) ==
    IF \E i \in 1..Len(seq) : seq[i] = m
    THEN Min({i \in 1..Len(seq) : seq[i] = m})
    ELSE 0

\* Array.splice(idx, 1)
Splice(seq, idx) == [i \in 1..(Len(seq) - 1) |-> IF i < idx THEN seq[i] ELSE seq[i + 1]]

removeBlockKeepMesh(w, x, y, z) ==
    LET key == getBlockKey(Floor(x), Floor(y), Floor(z))
    IN  IF key \notin DOMAIN w.world THEN w
        ELSE [w EXCEPT !.world = [k \in (DOMAIN w.world) \ {key} |-> w.world[k]]]

\* the guard on a missing block dropped: indexOf gives -1 and splice(-1, 1)
\* removes the last element
removeBlockSpliceMissing(w, x, y, z) ==
    LET key == getBlockKey(Floor(x), Floor(y), Floor(z))
    IN  IF key \notin DOMAIN w.world
        THEN [w EXCEPT !.objects = IF Len(w.objects) > 0
                                   THEN Splice(w.objects, Len(w.objects))
                                   ELSE w.objects]
        ELSE LET idx == IndexOf(w.objects, w.world[key].mesh)
             IN  [w EXCEPT
                    !.world = [k \in (DOMAIN w.world) \ {key} |-> w.world[k]],
                    !.objects = IF idx > 0 THEN Splice(w.objects, idx) ELSE w.objects]

removeBlock(w, x, y, z) ==
    LET fx == Floor(x)
        fy == Floor(y)
        fz == Floor(z)
        key == getBlockKey(fx, fy, fz)
    IN  IF key \notin DOMAIN w.world THEN w
        ELSE LET block == w.world[key]
                 idx == IndexOf(w.objects, block.mesh)
             IN  [w EXCEPT
                    !.world = [k \in (DOMAIN w.world) \ {key} |-> w.world[k]],
                    !.objects = IF idx > 0 THEN Splice(w.objects, idx) ELSE w.objects]

getObjects(w) == w.objects

-----------------------------------------------------------------------------
(* WorldManager, instanced variant (one InstancedMesh per block type) *)

MAX_INSTANCES == 50000

\* blockMap.get on a missing key
UndefinedInst == [key |-> <<>>, type |-> "undefined", instanceId |-> -1]

\* blockMap is a Map: a sequence of entries in insertion order
HasKey(blockMap, key) == \E i \in 1..Len(blockMap) : blockMap[i].key = key

EntryIndex(blockMap, key) == CHOOSE i \in 1..Len(blockMap) : blockMap[i].key = key

getBlockInst(w, x, y, z) ==
    LET key == getBlockKey(x, y, z)
    IN  IF HasKey(w.blockMap, key) THEN w.blockMap[EntryIndex(w.blockMap, key)]
        ELSE UndefinedInst

\* InstancedMesh.setMatrixAt(i, m): slot i of the instance buffer (0-based);
\* the buffer is modelled up to the highest slot ever written
setMatrixAt(matrix, i, m) ==
    IF i + 1 <= Len(matrix) THEN [matrix EXCEPT ![i + 1] = m]
    ELSE Append(matrix, m)

\* initMeshes: one InstancedMesh per BLOCKS type, count 0
initMeshes ==
    [blockMap |-> <<>>,
     counts |-> [t \in BlockTypeSet |-> 0],
     meshes |-> [t \in BlockTypeSet |-> [count |-> 0, matrix |-> <<>>]]]

addBlockInst(w, x, y, z, type) ==
    LET fx == Floor(x)
        fy == Floor(y)
        fz == Floor(z)
        key == getBlockKey(fx, fy, fz)
    IN  IF HasKey(w.blockMap, key) THEN w
        ELSE IF type \notin DOMAIN w.meshes THEN w
        ELSE LET count == w.counts[type]
             IN  IF count >= MAX_INSTANCES THEN w
                 ELSE [blockMap |-> Append(w.blockMap,
                                      [key |-> key, type |-> type, instanceId |-> count]),
                       counts |-> [w.counts EXCEPT ![type] = count + 1],
                       meshes |-> [w.meshes EXCEPT ![type] =
                                     [count |-> count + 1,
                                      matrix |-> setMatrixAt(w.meshes[type].matrix, count,
                                                             <<fx + 5, fy + 5, fz + 5>>)]]]

\* the first entry, in insertion order, of the given type and instanceId
\* (the for..of loop with break); 0 when there is none
FindInstance(blockMap, type, id) ==
    LET hits == {i \in 1..Len(blockMap) :
                    blockMap[i].type = type /\ blockMap[i].instanceId = id}
    IN  IF hits = {} THEN 0 ELSE Min(hits)

removeBlockInstNoSwap(w, x, y, z) ==
    LET key == getBlockKey(Floor(x), Floor(y), Floor(z))
    IN  IF ~HasKey(w.blockMap, key) THEN w
        ELSE LET at == EntryIndex(w.blockMap, key)
                 block == w.blockMap[at]
                 count == w.counts[block.type]
             IN  IF count = 0 THEN w
                 ELSE [blockMap |-> Splice(w.blockMap, at),
                       counts |-> [w.counts EXCEPT ![block.type] = count - 1],
                       meshes |-> [w.meshes EXCEPT ![block.type].count = count - 1]]

removeBlockInst(w, x, y, z) ==
    LET fx == Floor(x)
        fy == Floor(y)
        fz == Floor(z)
        key == getBlockKey(fx, fy, fz)
    IN  IF ~HasKey(w.blockMap, key) THEN w
        ELSE LET at == EntryIndex(w.blockMap, key)
                 block == w.blockMap[at]
                 count == w.counts[block.type]
                 lastInstanceId == count - 1
                 moved == FindInstance(w.blockMap, block.type, lastInstanceId)
                 swap == block.instanceId # lastInstanceId
                 matrix == w.meshes[block.type].matrix
                 relabelled ==
                    IF swap /\ moved > 0
                    THEN [w.blockMap EXCEPT ![moved].instanceId = block.instanceId]
                    ELSE w.blockMap
             IN  IF count = 0 THEN w
                 ELSE [blockMap |-> Splice(relabelled, at),
                       counts |-> [w.counts EXCEPT ![block.type] = count - 1],
                       meshes |-> [w.meshes EXCEPT ![block.type] =
                                     [count |-> count - 1,
                                      matrix |-> IF swap
                                                 THEN setMatrixAt(matrix, block.instanceId,
                                                                  matrix[lastInstanceId + 1])
                                                 ELSE matrix]]]

\* getObjects: the InstancedMesh of every type, each with its visible count
getObjectsInst(w) == w.meshes

-----------------------------------------------------------------------------
(* generateTerrain, restricted to the modelled window *)

\* Math.floor(noise2D(x, z) * 4) + 4 tabulated for the columns of the window
\* (the noise gives heights from below 0 to about 20 over the 64 x 64 area)
TerrainHeight(x, z) == IF x < 0 THEN 1 ELSE 0

\* the addBlock calls of one column, in call order: stone at y = 0, then
\* dirt up to h - 1 and grass at h
RECURSIVE ColumnAbove(_, _, _, _)
ColumnAbove(x, z, y, h) ==
    IF y > h THEN <<>>
    ELSE <<[x |-> 10 * x, y |-> 10 * y, z |-> 10 * z,
            type |-> IF y = h THEN "grass" ELSE "dirt"]>>
         \o ColumnAbove(x, z, y + 1, h)

Column(x, z) ==
    <<[x |-> 10 * x, y |-> 0, z |-> 10 * z, type |-> "stone"]>>
    \o ColumnAbove(x, z, 1, TerrainHeight(x, z))

RECURSIVE ColumnsOver(_, _)
ColumnsOver(xs, zs) ==
    IF xs = <<>> THEN <<>>
    ELSE IF zs = <<>> THEN ColumnsOver(Tail(xs), SortedSeq(ZCells))
    ELSE Column(Head(xs), Head(zs)) \o ColumnsOver(xs, Tail(zs))

TerrainCalls == ColumnsOver(SortedSeq(XCells), SortedSeq(ZCells))

RECURSIVE generateTerrain(_, _)
generateTerrain(w, calls) ==
    IF calls = <<>> THEN w
    ELSE LET c == Head(calls)
         IN  generateTerrain(addBlock(w, c.x, c.y, c.z, c.type), Tail(calls))

RECURSIVE generateTerrainInst(_, _)
generateTerrainInst(w, calls) ==
    IF calls = <<>> THEN w
    ELSE LET c == Head(calls)
         IN  generateTerrainInst(addBlockInst(w, c.x, c.y, c.z, c.type), Tail(calls))

\* new WorldManager(scene): empty maps, then generateTerrain
InitMeshWorld ==
    generateTerrain([world |-> <<>>, objects |-> <<>>, nextMesh |-> 0], TerrainCalls)

InitInstWorld == generateTerrainInst(initMeshes, TerrainCalls)

-----------------------------------------------------------------------------
(* InventoryManager *)

HOTBAR_SIZE == 8

BLOCK_STACK_LIMIT == 64

TOOL_STACK_LIMIT == 1

\* an empty slot (null)
Null == [item |-> "null", count |-> 0]

Stack(item, count) == [item |-> item, count |-> count]

isBlock(item) == item \in BlockTypeSet

isTool(item) == item \in ToolTypeSet

getStackLimitFlat(item) == BLOCK_STACK_LIMIT

getStackLimit(item) == IF isTool(item) THEN TOOL_STACK_LIMIT ELSE BLOCK_STACK_LIMIT

\* new InventoryManager(size): every slot null, slot 0 selected
NewInventory(size) == [slots |-> [i \in 1..size |-> Null], selectedSlot |-> 0]

\* slots[index]; index is 0-based as in the code
getSlot(inv, index) == inv.slots[index + 1]

getSelectedStack(inv) == getSlot(inv, inv.selectedSlot)

isBlockItem(item) == item # "null" /\ isBlock(item)

isToolItem(item) == item # "null" /\ isTool(item)

\* a faulty selectSlot without the range check
selectSlotUnchecked(inv, index) == [inv EXCEPT !.selectedSlot = index]

selectSlot(inv, index) ==
    IF index < 0 \/ index >= Len(inv.slots) THEN inv
    ELSE [inv EXCEPT !.selectedSlot = index]

\* the JavaScript % operator: the remainder takes the sign of the dividend
JsRem(a, n) == IF a >= 0 THEN a % n ELSE -((-a) % n)

scrollSelectionNoWrap(inv, delta) ==
    IF delta = 0 THEN inv
    ELSE [inv EXCEPT !.selectedSlot = JsRem(inv.selectedSlot + delta, Len(inv.slots))]

scrollSelection(inv, delta) ==
    IF delta = 0 THEN inv
    ELSE LET next == JsRem(inv.selectedSlot + delta, Len(inv.slots))
         IN  [inv EXCEPT !.selectedSlot = IF next < 0 THEN next + Len(inv.slots) ELSE next]

\* defaults.slice(0, size).forEach((stack, idx) => slots[idx] = {...stack})
populateHotbar(inv, defaults) ==
    [inv EXCEPT !.slots = [i \in 1..Len(inv.slots) |->
                              IF i <= Len(defaults) THEN defaults[i] ELSE inv.slots[i]]]

MinOf(a, b) == IF a < b THEN a ELSE b

MaxOf(a, b) == IF a > b THEN a ELSE b

\* first loop of addItem: slots.forEach, topping up stacks of the same item
RECURSIVE FillExisting(_, _, _, _, _)
FillExisting(slots, i, item, remaining, stackLimit) ==
    IF i > Len(slots) THEN [slots |-> slots, remaining |-> remaining]
    ELSE LET slot == slots[i]
         IN  IF slot = Null \/ slot.item # item \/ remaining <= 0
             THEN FillExisting(slots, i + 1, item, remaining, stackLimit)
             ELSE LET room == stackLimit - slot.count
                      transfer == MinOf(room, remaining)
                  IN  IF room <= 0
                      THEN FillExisting(slots, i + 1, item, remaining, stackLimit)
                      ELSE FillExisting(
                               [slots EXCEPT ![i].count = slot.count + transfer],
                               i + 1, item, remaining - transfer, stackLimit)

\* second loop of addItem: for (i = 0; i < length && remaining > 0; i++)
RECURSIVE FillEmpty(_, _, _, _, _)
FillEmpty(slots, i, item, remaining, stackLimit) ==
    IF i > Len(slots) \/ remaining <= 0 THEN [slots |-> slots, remaining |-> remaining]
    ELSE IF slots[i] # Null THEN FillEmpty(slots, i + 1, item, remaining, stackLimit)
    ELSE LET transfer == MinOf(stackLimit, remaining)
         IN  FillEmpty([slots EXCEPT ![i] = Stack(item, transfer)],
                       i + 1, item, remaining - transfer, stackLimit)

\* the mutants of addItem: empty slots before existing stacks; first free slot only
addItemEmptyFirst(inv, item, count) ==
    IF count <= 0 THEN [inv |-> inv, ret |-> 0]
    ELSE LET stackLimit == getStackLimit(item)
             first == FillEmpty(inv.slots, 1, item, count, stackLimit)
             second == FillExisting(first.slots, 1, item, first.remaining, stackLimit)
         IN  [inv |-> [inv EXCEPT !.slots = second.slots], ret |-> second.remaining]

\* a faulty addItem that reports nothing left over
addItemDropLeftover(inv, item, count) ==
    IF count <= 0 THEN [inv |-> inv, ret |-> 0]
    ELSE LET stackLimit == getStackLimit(item)
             first == FillExisting(inv.slots, 1, item, count, stackLimit)
             second == FillEmpty(first.slots, 1, item, first.remaining, stackLimit)
         IN  [inv |-> [inv EXCEPT !.slots = second.slots], ret |-> 0]

\* addItem(item, count): the inventory afterwards and the returned leftover
addItem(inv, item, count) ==
    IF count <= 0 THEN [inv |-> inv, ret |-> 0]
    ELSE LET stackLimit == getStackLimit(item)
             first == FillExisting(inv.slots, 1, item, count, stackLimit)
             second == FillEmpty(first.slots, 1, item, first.remaining, stackLimit)
         IN  [inv |-> [inv EXCEPT !.slots = second.slots], ret |-> second.remaining]

consumeSelected(inv, amount) ==
    IF amount <= 0 THEN inv
    ELSE LET slot == inv.slots[inv.selectedSlot + 1]
         IN  IF slot = Null THEN inv
             ELSE IF slot.count - amount <= 0
                  THEN [inv EXCEPT !.slots[inv.selectedSlot + 1] = Null]
                  ELSE [inv EXCEPT !.slots[inv.selectedSlot + 1].count = slot.count - amount]

DEFAULT_HOTBAR ==
    <<Stack("grass", 64), Stack("dirt", 64), Stack("stone", 32), Stack("sand", 32),
      Stack("wooden_pickaxe", 1), Stack("stone_pickaxe", 1)>>

-----------------------------------------------------------------------------
(* Camera and raycaster.  The camera pose is abstracted to the block face   *)
(* the centre ray (Vector2(0, 0)) points at: aim.cell is the corner of the  *)
(* aimed cell, aim.normal the outward unit normal of the aimed face.        *)

NoAim == [cell |-> <<>>, normal |-> <<>>]

Aim(cell, normal) == [cell |-> cell, normal |-> normal]

\* v + k * n, componentwise (k in tenths of a block)
AddScaled(v, n, k) == <<v[1] + k * n[1], v[2] + k * n[2], v[3] + k * n[3]>>

Centre(cell) == <<cell[1] + 5, cell[2] + 5, cell[3] + 5>>

\* raycaster.far = 6
RAYCASTER_FAR == 60

\* the point is no further than raycaster.far from the eye
WithinFar(eye, point) ==
    (point[1] - eye[1]) * (point[1] - eye[1])
      + (point[2] - eye[2]) * (point[2] - eye[2])
      + (point[3] - eye[3]) * (point[3] - eye[3]) <= RAYCASTER_FAR * RAYCASTER_FAR

MeshAt(objects, position) == \E i \in 1..Len(objects) : objects[i].position = position

\* the eye lies strictly inside the cell.  Every block material is a
\* MeshLambertMaterial with the default side (FrontSide): seen from inside a
\* block its faces are back faces, which the raycaster skips.
EyeInside(cell, position) ==
    \A i \in 1..3 : cell[i] < position[i] /\ position[i] < cell[i] + 10

\* raycaster.intersectObjects(objects) after setFromCamera: the nearest hit,
\* as a sequence of at most one intersection.  The ray hits the aimed face
\* when a mesh of `objects` occupies the aimed cell and the eye is outside
\* it, and the cell in front of that face holds no mesh or holds the eye;
\* the hit point is the centre of the face.
intersectObjects(objects, cam) ==
    IF cam.aim = NoAim THEN <<>>
    ELSE IF MeshAt(objects, Centre(cam.aim.cell))
            /\ ~EyeInside(cam.aim.cell, cam.position)
            /\ (~MeshAt(objects, Centre(AddScaled(cam.aim.cell, cam.aim.normal, 10)))
                  \/ EyeInside(AddScaled(cam.aim.cell, cam.aim.normal, 10), cam.position))
            /\ WithinFar(cam.position, AddScaled(Centre(cam.aim.cell), cam.aim.normal, 5))
         THEN <<[point |-> AddScaled(Centre(cam.aim.cell), cam.aim.normal, 5),
                 face |-> [normal |-> cam.aim.normal]]>>
         ELSE <<>>

-----------------------------------------------------------------------------
(* MiningSystem *)

\* hardness and efficiency in tenths
BLOCKS ==
    [grass |-> [hardness |-> 6], dirt |-> [hardness |-> 8], stone |-> [hardness |-> 18],
     wood |-> [hardness |-> 12], leaves |-> [hardness |-> 3], sand |-> [hardness |-> 7],
     glass |-> [hardness |-> 5], tnt |-> [hardness |-> 9]]

TOOLS == [wooden_pickaxe |-> [efficiency |-> 12], stone_pickaxe |-> [efficiency |-> 16]]

\* 0.8 s
BASE_BREAK_TIME == 2400

NullTarget == [position |-> <<>>, type |-> "null"]

\* field initialisers: breaking = false, progress = 0, requiredTime = 1, target = null
NewMining == [breaking |-> FALSE, progress |-> 0, requiredTime |-> 3000, target |-> NullTarget]

stopBreakingKeepProgress(m) == [m EXCEPT !.breaking = FALSE, !.target = NullTarget]

stopBreaking(m) == [m EXCEPT !.breaking = FALSE, !.progress = 0, !.target = NullTarget]

\* the tool gate of startBreaking: block.type === 'stone' && !hasTool
ToolGateOpen(blockType, hasTool) == FALSE

ToolGate(blockType, hasTool) == blockType = "stone" /\ ~hasTool

\* a startBreaking that stores the unfloored point as the target position
startBreakingNoFloor(m, cam, objects, w, selectedStack) ==
    LET intersects == intersectObjects(objects, cam)
        hit == intersects[1]
        point == AddScaled(hit.point, hit.face.normal, -1)
        block == getBlock(w, point[1], point[2], point[3])
        hasTool == selectedStack # Null /\ isTool(selectedStack.item)
        efficiency == IF hasTool THEN TOOLS[selectedStack.item].efficiency ELSE 10
    IN  IF Len(intersects) = 0 THEN [mining |-> m, ret |-> FALSE]
        ELSE IF block = Undefined THEN [mining |-> m, ret |-> FALSE]
        ELSE IF block.type \notin DOMAIN BLOCKS THEN [mining |-> m, ret |-> FALSE]
        ELSE IF ToolGate(block.type, hasTool) THEN [mining |-> m, ret |-> FALSE]
        ELSE [mining |->
                [breaking |-> TRUE,
                 progress |-> 0,
                 requiredTime |->
                    MaxOf(450, (BASE_BREAK_TIME * BLOCKS[block.type].hardness) \div efficiency),
                 target |-> [position |-> point, type |-> block.type]],
              ret |-> TRUE]

startBreakingBareHand(m, cam, objects, w, selectedStack) ==
    LET intersects == intersectObjects(objects, cam)
        hit == intersects[1]
        point == AddScaled(hit.point, hit.face.normal, -1)
        targetPos == <<Floor(point[1]), Floor(point[2]), Floor(point[3])>>
        block == getBlock(w, targetPos[1], targetPos[2], targetPos[3])
        hasTool == selectedStack # Null /\ isTool(selectedStack.item)
        efficiency == 10
    IN  IF Len(intersects) = 0 THEN [mining |-> m, ret |-> FALSE]
        ELSE IF block = Undefined THEN [mining |-> m, ret |-> FALSE]
        ELSE IF block.type \notin DOMAIN BLOCKS THEN [mining |-> m, ret |-> FALSE]
        ELSE IF ToolGate(block.type, hasTool) THEN [mining |-> m, ret |-> FALSE]
        ELSE [mining |->
                [breaking |-> TRUE,
                 progress |-> 0,
                 requiredTime |->
                    MaxOf(450, (BASE_BREAK_TIME * BLOCKS[block.type].hardness) \div efficiency),
                 target |-> [position |-> targetPos, type |-> block.type]],
              ret |-> TRUE]

\* startBreaking(camera, raycaster, objects): the mining state afterwards and
\* the returned boolean
startBreaking(m, cam, objects, w, selectedStack) ==
    LET intersects == intersectObjects(objects, cam)
        hit == intersects[1]
        point == AddScaled(hit.point, hit.face.normal, -1)
        targetPos == <<Floor(point[1]), Floor(point[2]), Floor(point[3])>>
        block == getBlock(w, targetPos[1], targetPos[2], targetPos[3])
        hasTool == selectedStack # Null /\ isTool(selectedStack.item)
        efficiency == IF hasTool THEN TOOLS[selectedStack.item].efficiency ELSE 10
    IN  IF Len(intersects) = 0 THEN [mining |-> m, ret |-> FALSE]
        ELSE IF block = Undefined THEN [mining |-> m, ret |-> FALSE]
        ELSE IF block.type \notin DOMAIN BLOCKS THEN [mining |-> m, ret |-> FALSE]
        ELSE IF ToolGate(block.type, hasTool) THEN [mining |-> m, ret |-> FALSE]
        ELSE [mining |->
                [breaking |-> TRUE,
                 progress |-> 0,
                 requiredTime |->
                    MaxOf(450, (BASE_BREAK_TIME * BLOCKS[block.type].hardness) \div efficiency),
                 target |-> [position |-> targetPos, type |-> block.type]],
              ret |-> TRUE]

\* an update that starts the session over when it completes
updateRestart(m, delta) ==
    IF ~m.breaking \/ m.target = NullTarget THEN [mining |-> m, broken |-> NullTarget]
    ELSE LET progress == m.progress + delta
         IN  IF progress >= m.requiredTime
             THEN [mining |-> [m EXCEPT !.progress = 0], broken |-> m.target]
             ELSE [mining |-> [m EXCEPT !.progress = progress], broken |-> NullTarget]

\* an update that reports the broken block without ending the session
updateNoStop(m, delta) ==
    IF ~m.breaking \/ m.target = NullTarget THEN [mining |-> m, broken |-> NullTarget]
    ELSE LET progress == m.progress + delta
         IN  IF progress >= m.requiredTime
             THEN [mining |-> [m EXCEPT !.progress = progress], broken |-> m.target]
             ELSE [mining |-> [m EXCEPT !.progress = progress], broken |-> NullTarget]

\* update(delta): the mining state afterwards, and the target handed to
\* options.onBlockBroken when the session completes (NullTarget otherwise)
update(m, delta) ==
    IF ~m.breaking \/ m.target = NullTarget THEN [mining |-> m, broken |-> NullTarget]
    ELSE LET progress == m.progress + delta
         IN  IF progress >= m.requiredTime
             THEN [mining |-> stopBreaking([m EXCEPT !.progress = progress]),
                   broken |-> m.target]
             ELSE [mining |-> [m EXCEPT !.progress = progress], broken |-> NullTarget]

-----------------------------------------------------------------------------
(* CommandSystem.  A command text is kept as what trim() and               *)
(* split(/\s+/) make of it: whether it starts with '/', and its words.      *)

Text(slash, words) == [slash |-> slash, words |-> words]

\* the empty string and the '/' prefill
EmptyText == Text(FALSE, <<>>)

\* rawInput.trim() is empty
IsBlank(text) == ~text.slash /\ text.words = <<>>

\* String.toLowerCase on the words used
toLowerCase(word) ==
    CASE word = "GIVE" -> "give"
      [] word = "Give" -> "give"
      [] word = "STONE" -> "stone"
      [] word = "Stone" -> "stone"
      [] OTHER -> word

\* parseInt(word, 10) on the words used: the leading optionally signed run
\* of digits, NaN when there is none
parseInt(word) ==
    CASE word = "1" -> [finite |-> TRUE, value |-> 1]
      [] word = "2" -> [finite |-> TRUE, value |-> 2]
      [] word = "3" -> [finite |-> TRUE, value |-> 3]
      [] word = "5" -> [finite |-> TRUE, value |-> 5]
      [] word = "6" -> [finite |-> TRUE, value |-> 6]
      [] word = "8" -> [finite |-> TRUE, value |-> 8]
      [] word = "9" -> [finite |-> TRUE, value |-> 9]
      [] word = "10" -> [finite |-> TRUE, value |-> 10]
      [] word = "64" -> [finite |-> TRUE, value |-> 64]
      [] word = "600" -> [finite |-> TRUE, value |-> 600]
      [] word = "0" -> [finite |-> TRUE, value |-> 0]
      [] word = "-3" -> [finite |-> TRUE, value |-> -3]
      [] word = "2.5" -> [finite |-> TRUE, value |-> 2]
      [] word = "5x" -> [finite |-> TRUE, value |-> 5]
      [] OTHER -> [finite |-> FALSE, value |-> 0]

\* the own keys of the KNOWN_ITEMS object: every BLOCKS and TOOLS key
KNOWN_ITEMS == BlockTypeSet \cup ToolTypeSet

\* the lower-case keys a plain object inherits from Object.prototype
ObjectPrototypeKeys == {"constructor", "__proto__"}

\* KNOWN_ITEMS[itemKey]: the item of an own key, the inherited member for a
\* key of Object.prototype, undefined (falsy) otherwise
LookupItem(itemKey) ==
    IF itemKey \in KNOWN_ITEMS THEN itemKey
    ELSE IF itemKey = "constructor" THEN "[Function: Object]"
    ELSE IF itemKey = "__proto__" THEN "[Object: null prototype]"
    ELSE "undefined"

LogEntry(message, level) == [message |-> message, level |-> level]

\* the success message: the received amount and item, and the remainder
\* when there is one
ReceivedMessage(received, itemKey, remaining) ==
    <<"received", received, itemKey>>
      \o (IF remaining > 0 THEN <<"left over", remaining>> ELSE <<>>)

\* a faulty handleGive that reports the requested amount as received
handleGiveReportsAmount(inv, args) ==
    IF Len(args) = 0
    THEN [inv |-> inv, entry |-> LogEntry(<<"usage">>, "error")]
    ELSE LET itemKey == toLowerCase(args[1])
             amount == IF Len(args) >= 2 THEN parseInt(args[2])
                       ELSE [finite |-> TRUE, value |-> 1]
             item == LookupItem(itemKey)
             added == addItem(inv, item, amount.value)
             received == amount.value - added.ret
         IN  IF ~amount.finite \/ amount.value <= 0
             THEN [inv |-> inv, entry |-> LogEntry(<<"count must be a positive integer">>, "error")]
             ELSE IF item = "undefined"
             THEN [inv |-> inv, entry |-> LogEntry(<<"unknown item", itemKey>>, "error")]
             ELSE IF received = 0
             THEN [inv |-> added.inv, entry |-> LogEntry(<<"inventory full">>, "error")]
             ELSE [inv |-> added.inv,
                   entry |-> LogEntry(ReceivedMessage(amount.value, itemKey, added.ret), "info")]

\* handleGive(args): the inventory afterwards and the log entry
handleGive(inv, args) ==
    IF Len(args) = 0
    THEN [inv |-> inv, entry |-> LogEntry(<<"usage">>, "error")]
    ELSE LET itemKey == toLowerCase(args[1])
             amount == IF Len(args) >= 2 THEN parseInt(args[2])
                       ELSE [finite |-> TRUE, value |-> 1]
             item == LookupItem(itemKey)
             added == addItem(inv, item, amount.value)
             received == amount.value - added.ret
         IN  IF ~amount.finite \/ amount.value <= 0
             THEN [inv |-> inv, entry |-> LogEntry(<<"count must be a positive integer">>, "error")]
             ELSE IF item = "undefined"
             THEN [inv |-> inv, entry |-> LogEntry(<<"unknown item", itemKey>>, "error")]
             ELSE IF received = 0
             THEN [inv |-> added.inv, entry |-> LogEntry(<<"inventory full">>, "error")]
             ELSE [inv |-> added.inv,
                   entry |-> LogEntry(ReceivedMessage(received, itemKey, added.ret), "info")]

\* execute(rawInput): the inventory afterwards and the log entry
execute(inv, rawInput) ==
    IF IsBlank(rawInput)
    THEN [inv |-> inv, entry |-> LogEntry(<<"enter a command">>, "error")]
    ELSE LET command == IF rawInput.words = <<>> THEN "" ELSE rawInput.words[1]
             args == IF rawInput.words = <<>> THEN <<>> ELSE Tail(rawInput.words)
         IN  IF toLowerCase(command) = "give" THEN handleGive(inv, args)
             ELSE [inv |-> inv, entry |-> LogEntry(<<"unknown command", command>>, "error")]

-----------------------------------------------------------------------------
(* State after construction *)

PLAYER_HEIGHT == 18

PLAYER_WIDTH == 4

EYE_HEIGHT == 16

\* findSafeSpawnY(x, z): scan y = 30 .. 1 for a block, 20 when there is none
RECURSIVE SpawnScan(_, _, _, _)
SpawnScan(w, x, z, y) ==
    IF y <= 0 THEN 200
    ELSE IF getBlock(w, 10 * x, 10 * y, 10 * z) # Undefined THEN 10 * y + PLAYER_HEIGHT
    ELSE SpawnScan(w, x, z, y - 1)

findSafeSpawnY(w, x, z) == SpawnScan(w, x, z, 30)

Event(op, args, ret) == [op |-> op, args |-> args, ret |-> ret]

\* KeyboardEvent.code, split where startsWith/slice split it
Code(prefix, rest) == [prefix |-> prefix, rest |-> rest]

\* no key is down
NoKey == Code("", "")


\* the state once the mount effect of MinecraftGame has run: world built,
\* hotbar populated, listeners registered, first frame requested
InitGame ==
    /\ meshWorld = InitMeshWorld
    /\ instWorld = InitInstWorld
    /\ inventory = populateHotbar(NewInventory(HOTBAR_SIZE), DEFAULT_HOTBAR)
    /\ mining = NewMining
    /\ input = [isLocked |-> FALSE,
                moveState |-> [forward |-> FALSE, backward |-> FALSE,
                               left |-> FALSE, right |-> FALSE],
                jump |-> FALSE, sprint |-> FALSE, listening |-> TRUE, held |-> NoKey, impulses |-> 0]
    /\ ui = [isConsoleOpen |-> FALSE, commandInput |-> Text(FALSE, <<>>)]
    /\ camera = [aim |-> NoAim, position |-> <<0, findSafeSpawnY(InitMeshWorld, 0, 0), 0>>]
    /\ physics = [onGround |-> FALSE]
    /\ loop = [running |-> TRUE, selector |-> [visible |-> FALSE, position |-> <<0, 0, 0>>]]
    /\ last = Event("init", <<>>, 0)

-----------------------------------------------------------------------------
(* PhysicsEngine.update, reduced to the vertical axis.  The player box is   *)
(* PLAYER_WIDTH wide around the eye and starts EYE_HEIGHT below it.  A      *)
(* frame that starts a jump lifts the player one block (JUMP_FORCE^2 /      *)
(* (2 GRAVITY) is about 1.07); in any other frame gravity takes the player  *)
(* down to the highest block under the box, where the Y sweep collides      *)
(* (groundedThisFrame, the eye put at blockTop + EYE_HEIGHT); with nothing  *)
(* under the box the player falls one block, down to the cell below the     *)
(* modelled window.  Horizontal movement is not modelled.                   *)

\* the cells at or below the player box that hold a block, by their y: the
\* cells <<x, y, z>> of checkCollision, Math.floor(min) <= cell < max on the
\* horizontal axes
BlocksUnder(w, position) ==
    {key[2] : key \in
        {k \in DOMAIN w.world :
            /\ k[2] <= Floor(position[2] - EYE_HEIGHT)
            /\ Floor(position[1] - PLAYER_WIDTH \div 2) <= k[1]
            /\ k[1] < position[1] + PLAYER_WIDTH \div 2
            /\ Floor(position[3] - PLAYER_WIDTH \div 2) <= k[3]
            /\ k[3] < position[3] + PLAYER_WIDTH \div 2}}

\* the lowest height the eye falls to
VoidY == 10 * (Min(YCells) - 1) + EYE_HEIGHT

\* physics.update(delta, camera, world, input): the physics, the input (a
\* jump request is consumed) and the camera afterwards, and whether the jump
\* impulse velocity.y = JUMP_FORCE was applied
physicsUpdate(ph, inp, cam, w) ==
    LET jumps == inp.isLocked /\ inp.jump /\ ph.onGround
        under == BlocksUnder(w, cam.position)
        y == cam.position[2]
    IN  IF jumps
        THEN [physics |-> [ph EXCEPT !.onGround = FALSE],
              input |-> [inp EXCEPT !.jump = FALSE],
              camera |-> [cam EXCEPT !.position[2] = y + 10],
              jumped |-> TRUE]
        ELSE IF under # {}
        THEN [physics |-> [ph EXCEPT !.onGround = TRUE],
              input |-> inp,
              camera |-> [cam EXCEPT !.position[2] =
                           (CHOOSE c \in under : \A d \in under : d <= c) + 10 + EYE_HEIGHT],
              jumped |-> FALSE]
        ELSE [physics |-> [ph EXCEPT !.onGround = FALSE],
              input |-> inp,
              camera |-> [cam EXCEPT !.position[2] = IF y - 10 >= VoidY THEN y - 10 ELSE y],
              jumped |-> FALSE]

-----------------------------------------------------------------------------
(* Spec: the running game (MinecraftGame), driven by DOM events and by the  *)
(* animation frame.                                                         *)

KeyCodes ==
    {Code("Digit", "1"), Code("Numpad", "5"), Code("Key", "T")}

\* mouse buttons: left, middle, right
Buttons == {0, 1, 2}

\* WheelEvent.deltaY
WheelDeltas == {-100, 100}

\* frame times: 0.15 s and 0.6 s
Deltas == {450, 1800}

Up == <<0, 1, 0>>

West == <<-1, 0, 0>>

\* the block faces the player looks at
Aims ==
    {NoAim, Aim(<<-10, 10, 0>>, Up), Aim(<<0, 0, 0>>, Up), Aim(<<-10, 10, 0>>, West)}

\* what the player types into the console
CommandTexts ==
    {Text(TRUE, <<"give", "wooden_pickaxe", "2">>), Text(FALSE, <<"GIVE", "Stone", "600">>)}

\* Math.sign
Sign(n) == IF n > 0 THEN 1 ELSE IF n < 0 THEN -1 ELSE 0

\* the digit of a Digit<n> or Numpad<n> code, -1 otherwise
DigitOf(code) ==
    IF code.prefix \in {"Digit", "Numpad"}
    THEN LET n == parseInt(code.rest) IN IF n.finite THEN n.value ELSE -1
    ELSE -1

\* one event or frame of the explored run is used up
Spend(b) == [b EXCEPT !.steps = @ - 1]

Init ==
    /\ InitGame
    /\ budget = [places |-> MaxPlaces, gives |-> MaxGives, steps |-> MaxSteps]

\* document keydown -> InputManager.onKeyDown.  `repeat` is e.repeat: the
\* keyboard repeats the key that is held, a fresh press is of another key.
\* The event records the callbacks the handler fired.
\* input.held is the key the keyboard is repeating, input.impulses the
\* number of jump impulses applied since Space went down (history kept for
\* the claims, read by no handler).
KeyDown(code, repeat) ==
    LET digit == DigitOf(code)
        selects == digit > 0 /\ digit <= HOTBAR_SIZE
        opens == code \in {Code("Key", "T"), Code("Slash", "")}
        pressed == [input EXCEPT
                      !.moveState.forward = IF code = Code("Key", "W") THEN TRUE ELSE @,
                      !.jump = IF code = Code("Space", "") THEN TRUE ELSE @,
                      !.held = code,
                      !.impulses = IF code = Code("Space", "") /\ ~repeat THEN 0 ELSE @]
    IN  /\ budget.steps > 0
        /\ input.listening
        /\ repeat <=> input.held = code
        /\ input' = IF opens THEN [pressed EXCEPT !.isLocked = FALSE] ELSE pressed
        /\ inventory' = IF selects THEN selectSlot(inventory, digit - 1) ELSE inventory
        /\ ui' = IF opens
                 THEN [isConsoleOpen |-> TRUE,
                       commandInput |-> Text(code = Code("Slash", ""), <<>>)]
                 ELSE ui
        /\ last' = Event("keydown", <<code, repeat>>,
                         (IF selects THEN {"onSelectSlot"} ELSE {})
                           \cup (IF opens THEN {"onOpenConsole"} ELSE {}))
        /\ budget' = Spend(budget)
        /\ UNCHANGED <<meshWorld, instWorld, mining, camera, physics, loop>>

\* document keyup -> InputManager.onKeyUp
KeyUp(code) ==
    /\ budget.steps > 0
    /\ input.listening
    /\ input' = [input EXCEPT
                   !.moveState.forward = IF code = Code("Key", "W") THEN FALSE ELSE @,
                   !.jump = IF code = Code("Space", "") THEN FALSE ELSE @,
                   !.held = IF @ = code THEN NoKey ELSE @,
                   !.impulses = IF code = Code("Space", "") THEN 0 ELSE @]
    /\ last' = Event("keyup", <<code>>, 0)
    /\ budget' = Spend(budget)
    /\ UNCHANGED <<meshWorld, instWorld, inventory, mining, ui, camera, physics, loop>>

\* performPlacement: the worlds and the inventory afterwards
performPlacement(mw, iw, inv, cam) ==
    LET stack == getSelectedStack(inv)
        intersects == intersectObjects(getObjects(mw), cam)
        hit == intersects[1]
        pos == AddScaled(hit.point, hit.face.normal, 5)
    IN  IF stack = Null \/ ~isBlockItem(stack.item) THEN [mw |-> mw, iw |-> iw, inv |-> inv]
        ELSE IF Len(intersects) = 0 THEN [mw |-> mw, iw |-> iw, inv |-> inv]
        ELSE [mw |-> addBlock(mw, pos[1], pos[2], pos[3], stack.item),
              iw |-> addBlockInst(iw, pos[1], pos[2], pos[3], stack.item),
              inv |-> consumeSelected(inv, 1)]

\* document mousedown -> InputManager.onMouseDown
MouseDown(button) ==
    LET started == startBreaking(mining, camera, getObjects(meshWorld), meshWorld,
                                 getSelectedStack(inventory))
        placed == performPlacement(meshWorld, instWorld, inventory, camera)
    IN  /\ budget.steps > 0
        /\ input.listening
        /\ button = 2 /\ input.isLocked => budget.places > 0
        /\ IF ~input.isLocked \/ button = 1
           THEN /\ last' = Event("mousedown", <<button>>, FALSE)
                /\ budget' = Spend(budget)
                /\ UNCHANGED <<meshWorld, instWorld, inventory, mining>>
           ELSE IF button = 0
           THEN /\ mining' = started.mining
                /\ last' = Event("mousedown", <<button>>, started.ret)
                /\ budget' = Spend(budget)
                /\ UNCHANGED <<meshWorld, instWorld, inventory>>
           ELSE /\ meshWorld' = placed.mw
                /\ instWorld' = placed.iw
                /\ inventory' = placed.inv
                /\ budget' = Spend([budget EXCEPT !.places = @ - 1])
                /\ last' = Event("mousedown", <<button>>, placed.mw # meshWorld)
                /\ UNCHANGED mining
        /\ UNCHANGED <<input, ui, camera, physics, loop>>

\* document mouseup -> InputManager.onMouseUp (the event records the
\* progress the session had when the button was released)
MouseUp(button) ==
    /\ budget.steps > 0
    /\ input.listening
    /\ mining' = IF button = 0 THEN stopBreaking(mining) ELSE mining
    /\ last' = Event("mouseup", <<button>>, mining.progress)
    /\ budget' = Spend(budget)
    /\ UNCHANGED <<meshWorld, instWorld, inventory, input, ui, camera, physics, loop>>

\* document wheel -> InputManager.onWheel
Wheel(deltaY) ==
    /\ budget.steps > 0
    /\ input.listening
    /\ inventory' = IF input.isLocked /\ Sign(deltaY) # 0
                    THEN scrollSelection(inventory, Sign(deltaY)) ELSE inventory
    /\ last' = Event("wheel", <<deltaY>>, 0)
    /\ budget' = Spend(budget)
    /\ UNCHANGED <<meshWorld, instWorld, mining, input, ui, camera, physics, loop>>

\* mousemove under pointer lock: PointerLockControls turns the camera
MouseMove(aim) ==
    /\ budget.steps > 0
    /\ input.listening
    /\ input.isLocked
    /\ aim # camera.aim
    /\ camera' = [camera EXCEPT !.aim = aim]
    /\ last' = Event("mousemove", <<>>, 0)
    /\ budget' = Spend(budget)
    /\ UNCHANGED <<meshWorld, instWorld, inventory, mining, input, ui, physics, loop>>

\* the browser ends the pointer lock (Escape, focus loss): 'unlock' event
PointerUnlock ==
    /\ budget.steps > 0
    /\ input.listening
    /\ input.isLocked
    /\ input' = [input EXCEPT !.isLocked = FALSE]
    /\ last' = Event("unlock", <<>>, 0)
    /\ budget' = Spend(budget)
    /\ UNCHANGED <<meshWorld, instWorld, inventory, mining, ui, camera, physics, loop>>

\* click on the canvas: handleOverlayClick
OverlayClick ==
    /\ budget.steps > 0
    /\ loop.running
    /\ ~input.isLocked
    /\ input' = IF ui.isConsoleOpen THEN input ELSE [input EXCEPT !.isLocked = TRUE]
    /\ last' = Event("overlayclick", <<>>, 0)
    /\ budget' = Spend(budget)
    /\ UNCHANGED <<meshWorld, instWorld, inventory, mining, ui, camera, physics, loop>>

\* click on a hotbar button: handleHotbarClick
HotbarClick(index) ==
    /\ budget.steps > 0
    /\ loop.running
    /\ ~input.isLocked
    /\ inventory' = selectSlot(inventory, index)
    /\ last' = Event("hotbarclick", <<index>>, 0)
    /\ budget' = Spend(budget)
    /\ UNCHANGED <<meshWorld, instWorld, mining, input, ui, camera, physics, loop>>

\* typing into the console input: onChange -> setCommandInput
ChangeCommandInput(text) ==
    /\ budget.steps > 0
    /\ loop.running
    /\ ui.isConsoleOpen
    /\ text # ui.commandInput
    /\ ui' = [ui EXCEPT !.commandInput = text]
    /\ last' = Event("change", <<>>, 0)
    /\ budget' = Spend(budget)
    /\ UNCHANGED <<meshWorld, instWorld, inventory, mining, input, camera, physics, loop>>

\* form submit: handleCommandSubmit
CommandSubmit ==
    LET done == execute(inventory, ui.commandInput)
    IN  /\ budget.steps > 0
        /\ loop.running
        /\ ui.isConsoleOpen
        /\ budget.gives > 0
        /\ IF IsBlank(ui.commandInput)
           THEN /\ last' = Event("submit", <<>>, 0)
                /\ budget' = Spend(budget)
                /\ UNCHANGED <<inventory, ui, input>>
           ELSE /\ inventory' = done.inv
                /\ ui' = [isConsoleOpen |-> FALSE, commandInput |-> EmptyText]
                /\ input' = [input EXCEPT !.isLocked = TRUE]
                /\ budget' = Spend([budget EXCEPT !.gives = @ - 1])
                /\ last' = Event("submit", <<>>, done.entry)
        /\ UNCHANGED <<meshWorld, instWorld, mining, camera, physics, loop>>

\* close button or Escape in the console: handleConsoleClose
ConsoleClose ==
    /\ budget.steps > 0
    /\ loop.running
    /\ ui.isConsoleOpen
    /\ ui' = [isConsoleOpen |-> FALSE, commandInput |-> EmptyText]
    /\ input' = [input EXCEPT !.isLocked = TRUE]
    /\ last' = Event("consoleclose", <<>>, 0)
    /\ budget' = Spend(budget)
    /\ UNCHANGED <<meshWorld, instWorld, inventory, mining, camera, physics, loop>>

\* options.onBlockBroken({position, type})
onBlockBroken(mw, iw, inv, target) ==
    [mw |-> removeBlock(mw, target.position[1], target.position[2], target.position[3]),
     iw |-> removeBlockInst(iw, target.position[1], target.position[2], target.position[3]),
     inv |-> addItem(inv, target.type, 1).inv]

\* the selector outline of animate: shown on the cell under the crosshair,
\* hidden (and left where it was) when the ray hits nothing
updateSelector(sel, objects, cam) ==
    LET intersects == intersectObjects(objects, cam)
        hit == intersects[1]
        p == AddScaled(hit.point, hit.face.normal, -1)
    IN  IF Len(intersects) > 0
        THEN [visible |-> TRUE,
              position |-> <<Floor(p[1]) + 5, Floor(p[2]) + 5, Floor(p[3]) + 5>>]
        ELSE [sel EXCEPT !.visible = FALSE]

\* a frame that runs the mining update before the physics update
TickMiningFirst(delta) ==
    LET mined == update(mining, delta)
        broken == IF mined.broken # NullTarget
                  THEN onBlockBroken(meshWorld, instWorld, inventory, mined.broken)
                  ELSE [mw |-> meshWorld, iw |-> instWorld, inv |-> inventory]
        moved == physicsUpdate(physics, input, camera, broken.mw)
    IN  /\ budget.steps > 0
        /\ loop.running
        /\ physics' = moved.physics
        /\ input' = [moved.input EXCEPT !.impulses = IF moved.jumped THEN @ + 1 ELSE @]
        /\ camera' = moved.camera
        /\ mining' = mined.mining
        /\ meshWorld' = broken.mw
        /\ instWorld' = broken.iw
        /\ inventory' = broken.inv
        /\ loop' = [loop EXCEPT !.selector = updateSelector(@, getObjects(broken.mw), moved.camera)]
        /\ last' = Event("tick", <<delta, moved.jumped>>, mined.broken)
        /\ budget' = Spend(budget)
        /\ UNCHANGED ui

\* a frame that places the selector before the mining update
TickSelectorFirst(delta) ==
    LET moved == physicsUpdate(physics, input, camera, meshWorld)
        mined == update(mining, delta)
        broken == IF mined.broken # NullTarget
                  THEN onBlockBroken(meshWorld, instWorld, inventory, mined.broken)
                  ELSE [mw |-> meshWorld, iw |-> instWorld, inv |-> inventory]
    IN  /\ budget.steps > 0
        /\ loop.running
        /\ physics' = moved.physics
        /\ input' = [moved.input EXCEPT !.impulses = IF moved.jumped THEN @ + 1 ELSE @]
        /\ camera' = moved.camera
        /\ mining' = mined.mining
        /\ meshWorld' = broken.mw
        /\ instWorld' = broken.iw
        /\ inventory' = broken.inv
        /\ loop' = [loop EXCEPT !.selector = updateSelector(@, getObjects(meshWorld), moved.camera)]
        /\ last' = Event("tick", <<delta, moved.jumped>>, mined.broken)
        /\ budget' = Spend(budget)
        /\ UNCHANGED ui

\* one animation frame: animate.  physics.update, then miningSystem.update
\* (with onBlockBroken inside it), then the selector
Tick(delta) ==
    LET moved == physicsUpdate(physics, input, camera, meshWorld)
        mined == update(mining, delta)
        broken == IF mined.broken # NullTarget
                  THEN onBlockBroken(meshWorld, instWorld, inventory, mined.broken)
                  ELSE [mw |-> meshWorld, iw |-> instWorld, inv |-> inventory]
    IN  /\ budget.steps > 0
        /\ loop.running
        /\ physics' = moved.physics
        /\ input' = [moved.input EXCEPT !.impulses = IF moved.jumped THEN @ + 1 ELSE @]
        /\ camera' = moved.camera
        /\ mining' = mined.mining
        /\ meshWorld' = broken.mw
        /\ instWorld' = broken.iw
        /\ inventory' = broken.inv
        /\ loop' = [loop EXCEPT !.selector = updateSelector(@, getObjects(broken.mw), moved.camera)]
        /\ last' = Event("tick", <<delta, moved.jumped>>, mined.broken)
        /\ budget' = Spend(budget)
        /\ UNCHANGED ui

Next ==
    \/ \E code \in KeyCodes, repeat \in BOOLEAN : KeyDown(code, repeat)
    \/ \E code \in KeyCodes : KeyUp(code)
    \/ \E button \in Buttons : MouseDown(button)
    \/ \E button \in Buttons : MouseUp(button)
    \/ \E deltaY \in WheelDeltas : Wheel(deltaY)
    \/ \E aim \in Aims : MouseMove(aim)
    \/ PointerUnlock
    \/ OverlayClick
    \/ \E index \in {0, 6} : HotbarClick(index)
    \/ \E text \in CommandTexts : ChangeCommandInput(text)
    \/ CommandSubmit
    \/ ConsoleClose
    \/ \E delta \in Deltas : Tick(delta)

Spec == Init /\ [][Next]_vars

-----------------------------------------------------------------------------
(* SpecWorld: the WorldManager API under arbitrary calls *)

\* raw coordinates handed to the API: a cell corner plus a fraction per axis
RawCoords ==
    {<<10 * cx + f[1], 10 * cy + f[2], 10 * cz + f[3]>> :
        cx \in XCells, cy \in YCells, cz \in ZCells, f \in Fractions}

InitWorld ==
    /\ InitGame
    /\ budget = [worldOps |-> MaxWorldOps]

othersW == <<inventory, mining, input, ui, camera, physics, loop>>

CallAddBlock(c, type) ==
    /\ budget.worldOps > 0
    /\ meshWorld' = addBlock(meshWorld, c[1], c[2], c[3], type)
    /\ instWorld' = addBlockInst(instWorld, c[1], c[2], c[3], type)
    /\ last' = Event("addBlock", <<c, type>>, Cardinality(DOMAIN meshWorld.world))
    /\ budget' = [budget EXCEPT !.worldOps = @ - 1]
    /\ UNCHANGED othersW

CallRemoveBlock(c) ==
    /\ budget.worldOps > 0
    /\ meshWorld' = removeBlock(meshWorld, c[1], c[2], c[3])
    /\ instWorld' = removeBlockInst(instWorld, c[1], c[2], c[3])
    /\ last' = Event("removeBlock", <<c>>, Cardinality(DOMAIN meshWorld.world))
    /\ budget' = [budget EXCEPT !.worldOps = @ - 1]
    /\ UNCHANGED othersW

NextWorld ==
    \/ \E c \in RawCoords, type \in WorldTypes : CallAddBlock(c, type)
    \/ \E c \in RawCoords : CallRemoveBlock(c)

SpecWorld == InitWorld /\ [][NextWorld]_vars

-----------------------------------------------------------------------------
(* SpecInv: the InventoryManager API under arbitrary calls *)

\* the arguments the calls draw from
InvItems == {"stone", "dirt", "wooden_pickaxe"}

InvCounts == {0, 1, 100, 600}

InvIndexes == {-1, 0, 2, 7, 8}

InvDeltas == {-17, -1, 0, 1, 9}

\* new InventoryManager(HOTBAR_SIZE), before populateHotbar
InitInv ==
    /\ meshWorld = InitMeshWorld
    /\ instWorld = InitInstWorld
    /\ inventory = NewInventory(HOTBAR_SIZE)
    /\ mining = NewMining
    /\ input = [isLocked |-> FALSE,
                moveState |-> [forward |-> FALSE, backward |-> FALSE,
                               left |-> FALSE, right |-> FALSE],
                jump |-> FALSE, sprint |-> FALSE, listening |-> TRUE, held |-> NoKey, impulses |-> 0]
    /\ ui = [isConsoleOpen |-> FALSE, commandInput |-> Text(FALSE, <<>>)]
    /\ camera = [aim |-> NoAim, position |-> <<0, findSafeSpawnY(InitMeshWorld, 0, 0), 0>>]
    /\ physics = [onGround |-> FALSE]
    /\ loop = [running |-> TRUE, selector |-> [visible |-> FALSE, position |-> <<0, 0, 0>>]]
    /\ last = Event("init", <<>>, 0)
    /\ budget = [invOps |-> MaxInvOps]

othersI == <<meshWorld, instWorld, mining, input, ui, camera, physics, loop>>

CallPopulateHotbar ==
    /\ budget.invOps > 0
    /\ inventory' = populateHotbar(inventory, DEFAULT_HOTBAR)
    /\ last' = Event("populateHotbar", <<>>, 0)
    /\ budget' = [budget EXCEPT !.invOps = @ - 1]
    /\ UNCHANGED othersI

CallAddItem(item, count) ==
    /\ budget.invOps > 0
    /\ inventory' = addItem(inventory, item, count).inv
    /\ last' = Event("addItem", <<item, count>>, addItem(inventory, item, count).ret)
    /\ budget' = [budget EXCEPT !.invOps = @ - 1]
    /\ UNCHANGED othersI

CallConsumeSelected(amount) ==
    /\ budget.invOps > 0
    /\ inventory' = consumeSelected(inventory, amount)
    /\ last' = Event("consumeSelected", <<amount>>, 0)
    /\ budget' = [budget EXCEPT !.invOps = @ - 1]
    /\ UNCHANGED othersI

CallSelectSlot(index) ==
    /\ budget.invOps > 0
    /\ inventory' = selectSlot(inventory, index)
    /\ last' = Event("selectSlot", <<index>>, 0)
    /\ budget' = [budget EXCEPT !.invOps = @ - 1]
    /\ UNCHANGED othersI

CallScrollSelection(delta) ==
    /\ budget.invOps > 0
    /\ inventory' = scrollSelection(inventory, delta)
    /\ last' = Event("scrollSelection", <<delta>>, scrollSelection(inventory, delta).selectedSlot)
    /\ budget' = [budget EXCEPT !.invOps = @ - 1]
    /\ UNCHANGED othersI

NextInv ==
    \/ CallPopulateHotbar
    \/ \E item \in InvItems, count \in InvCounts : CallAddItem(item, count)
    \/ \E amount \in {1} : CallConsumeSelected(amount)
    \/ \E index \in InvIndexes : CallSelectSlot(index)
    \/ \E delta \in InvDeltas : CallScrollSelection(delta)

SpecInv == InitInv /\ [][NextInv]_vars

-----------------------------------------------------------------------------
(* Claims about the WorldManager (checked under SpecWorld) *)

\* the mathematical floor of a coordinate in tenths, as a multiple of 10,
\* stated without the operator that models Math.floor
FloorTable == [v \in -40..49 |-> CHOOSE k \in {10 * i : i \in -4..4} : k <= v /\ v < k + 10]

MathFloor(v) == FloorTable[v]

CellOf(c) == <<MathFloor(c[1]), MathFloor(c[2]), MathFloor(c[3])>>

OccupiedMesh(w, c) == CellOf(c) \in DOMAIN w.world

OccupiedInst(w, c) == \E i \in 1..Len(w.blockMap) : w.blockMap[i].key = CellOf(c)

WorldSize(w) == Cardinality(DOMAIN w.world)

\* C6: addBlock at a coordinate whose floored cell is already occupied is a
\* no-op in both WorldManager variants: the block map (hence the stored
\* type) and the collidable set are unchanged, whatever the two types are.
C6_AddOccupiedNoOp ==
    [][(last'.op = "addBlock")
         => /\ OccupiedMesh(meshWorld, last'.args[1]) => meshWorld' = meshWorld
            /\ OccupiedInst(instWorld, last'.args[1]) => instWorld' = instWorld]_vars

\* an addBlock of another type just hit an occupied cell, and the cell still
\* holds its first type
C6_Witness ==
    /\ last.op = "addBlock"
    /\ OccupiedMesh(meshWorld, last.args[1])
    /\ meshWorld.world[CellOf(last.args[1])].type # last.args[2]
    /\ WorldSize(meshWorld) = last.ret

\* C7: getBlock, addBlock and removeBlock give the same result and have the
\* same effect as the same call on the mathematically floored coordinates,
\* for negative and fractional components alike.
C7_FloorLaw ==
    /\ [](\A c \in RawCoords :
             LET f == CellOf(c)
                 got == getBlock(meshWorld, c[1], c[2], c[3])
             IN  /\ got = getBlock(meshWorld, f[1], f[2], f[3])
                 /\ getBlockInst(instWorld, c[1], c[2], c[3])
                      = getBlockInst(instWorld, f[1], f[2], f[3])
                 /\ (got # Undefined) = (f \in DOMAIN meshWorld.world))
    /\ [][/\ (last'.op = "addBlock") =>
                LET c == last'.args[1]
                    f == CellOf(c)
                IN  /\ meshWorld' = addBlock(meshWorld, f[1], f[2], f[3], last'.args[2])
                    /\ instWorld' = addBlockInst(instWorld, f[1], f[2], f[3], last'.args[2])
                    /\ f \in DOMAIN meshWorld'.world
                    /\ meshWorld'.world[f].mesh.position = Centre(f)
          /\ (last'.op = "removeBlock") =>
                LET c == last'.args[1]
                    f == CellOf(c)
                IN  /\ meshWorld' = removeBlock(meshWorld, f[1], f[2], f[3])
                    /\ instWorld' = removeBlockInst(instWorld, f[1], f[2], f[3])
                    /\ f \notin DOMAIN meshWorld'.world
                    /\ \A k \in DOMAIN meshWorld.world :
                           k # f => k \in DOMAIN meshWorld'.world]_vars

IsFractional(v) == MathFloor(v) # v

\* an addBlock with a negative fractional component just created the block
\* of the floored cell
C7_Witness ==
    /\ last.op = "addBlock"
    /\ \E i \in 1..3 : last.args[1][i] < 0 /\ IsFractional(last.args[1][i])
    /\ WorldSize(meshWorld) = last.ret + 1
    /\ OccupiedMesh(meshWorld, last.args[1])
    /\ meshWorld.world[CellOf(last.args[1])].mesh.id = meshWorld.nextMesh - 1

\* C8: removeBlock on a coordinate with no block leaves the world unchanged
\* in both variants: same occupied cells, types, size and collidable set.
C8_RemoveEmptyNoOp ==
    [][(last'.op = "removeBlock")
         => /\ ~OccupiedMesh(meshWorld, last'.args[1]) => meshWorld' = meshWorld
            /\ ~OccupiedInst(instWorld, last'.args[1]) => instWorld' = instWorld]_vars

\* a removeBlock just ran on an empty cell of a non-empty world
C8_Witness ==
    /\ last.op = "removeBlock"
    /\ WorldSize(meshWorld) = last.ret
    /\ last.ret > 0
    /\ Len(meshWorld.objects) = last.ret

TypeEntries(w, t) == {i \in 1..Len(w.blockMap) : w.blockMap[i].type = t}

\* C9: after any sequence of addBlock and removeBlock calls the collidable
\* set matches the coordinate map.  Per-block-mesh world: objects holds
\* exactly the meshes of the occupied cells, once each, each at its cell.
\* Instanced world: per type, the visible count equals the number of map
\* entries of the type, whose instanceIds are distinct and are 0..count-1,
\* and the instance matrix of each entry is at the entry's cell.
C9_ObjectsMatchMap ==
    /\ Len(meshWorld.objects) = WorldSize(meshWorld)
    /\ \A i, j \in 1..Len(meshWorld.objects) :
           meshWorld.objects[i] = meshWorld.objects[j] => i = j
    /\ {meshWorld.objects[i] : i \in 1..Len(meshWorld.objects)}
         = {meshWorld.world[k].mesh : k \in DOMAIN meshWorld.world}
    /\ \A k \in DOMAIN meshWorld.world : meshWorld.world[k].mesh.position = Centre(k)
    /\ \A t \in BlockTypeSet :
           /\ getObjectsInst(instWorld)[t].count = Cardinality(TypeEntries(instWorld, t))
           /\ instWorld.counts[t] = Cardinality(TypeEntries(instWorld, t))
           /\ {instWorld.blockMap[i].instanceId : i \in TypeEntries(instWorld, t)}
                = 0..(Cardinality(TypeEntries(instWorld, t)) - 1)
           /\ \A i, j \in TypeEntries(instWorld, t) :
                  instWorld.blockMap[i].instanceId = instWorld.blockMap[j].instanceId => i = j
           /\ \A i \in TypeEntries(instWorld, t) :
                  instWorld.meshes[t].matrix[instWorld.blockMap[i].instanceId + 1]
                    = Centre(instWorld.blockMap[i].key)
    /\ {instWorld.blockMap[i].key : i \in 1..Len(instWorld.blockMap)} = DOMAIN meshWorld.world

\* a removeBlock just removed a block that was not the last instance of its
\* type, so that the last instance was moved into its slot
C9_Witness ==
    /\ last.op = "removeBlock"
    /\ WorldSize(meshWorld) = last.ret - 1
    /\ \E i, j \in 1..Len(instWorld.blockMap) :
           /\ i < j
           /\ instWorld.blockMap[i].type = instWorld.blockMap[j].type
           /\ instWorld.blockMap[i].instanceId > instWorld.blockMap[j].instanceId

-----------------------------------------------------------------------------
(* Claims about the InventoryManager (checked under SpecInv) *)

RECURSIVE SumOver(_, _)
SumOver(S, f) == IF S = {} THEN 0
                 ELSE LET i == Min(S) IN f[i] + SumOver(S \ {i}, f)

\* what the two-phase rule gives, in closed form: the stacks of `item`, in
\* ascending slot order, each take what is still unplaced up to their room;
\* then the empty slots, in ascending order, each take what is still
\* unplaced up to the limit
ExpectedSlots(slots, item, n, limit) ==
    LET same == {i \in 1..Len(slots) : slots[i] # Null /\ slots[i].item = item}
        empty == {i \in 1..Len(slots) : slots[i] = Null}
        room == [i \in 1..Len(slots) |-> IF i \in same THEN limit - slots[i].count ELSE 0]
        before(i) == SumOver({j \in same : j < i}, room)
        afterTopUp == MaxOf(0, n - SumOver(same, room))
        emptyBefore(i) == Cardinality({j \in empty : j < i})
    IN  [i \in 1..Len(slots) |->
            IF i \in same
            THEN Stack(item, slots[i].count + MinOf(room[i], MaxOf(0, n - before(i))))
            ELSE IF i \in empty /\ afterTopUp - limit * emptyBefore(i) > 0
            THEN Stack(item, MinOf(limit, afterTopUp - limit * emptyBefore(i)))
            ELSE slots[i]]

ExpectedLeftover(slots, item, n, limit) ==
    LET same == {i \in 1..Len(slots) : slots[i] # Null /\ slots[i].item = item}
        empty == {i \in 1..Len(slots) : slots[i] = Null}
        room == [i \in 1..Len(slots) |-> IF i \in same THEN limit - slots[i].count ELSE 0]
    IN  MaxOf(0, MaxOf(0, n - SumOver(same, room)) - limit * Cardinality(empty))

LimitOf(item) == IF item \in {"wooden_pickaxe", "stone_pickaxe"} THEN 1 ELSE 64

\* C10: addItem(item, n) with n > 0 tops up the existing stacks of the item
\* in ascending slot order, each to its limit, then fills empty slots in
\* ascending order with stacks of at most the limit, and returns what is
\* left; addItem('stone', 100) into the empty 8-slot inventory gives 64 in
\* slot 0, 36 in slot 1 and returns 0.  The result depends only on the
\* prior slots, the item and n.
C10_AddItemOrder ==
    [][(last'.op = "addItem" /\ last'.args[2] > 0)
         => LET item == last'.args[1]
                n == last'.args[2]
            IN  /\ inventory'.slots = ExpectedSlots(inventory.slots, item, n, LimitOf(item))
                /\ last'.ret = ExpectedLeftover(inventory.slots, item, n, LimitOf(item))
                /\ inventory'.selectedSlot = inventory.selectedSlot
                /\ (inventory.slots = [i \in 1..8 |-> Null] /\ item = "stone" /\ n = 100)
                     => /\ inventory'.slots =
                             [i \in 1..8 |-> IF i = 1 THEN Stack("stone", 64)
                                             ELSE IF i = 2 THEN Stack("stone", 36)
                                             ELSE Null]
                        /\ last'.ret = 0]_vars

\* addItem('stone', 100) on the default hotbar just topped up the stone
\* stack of slot 2 from 32 to 64 and put 64 and 4 into the empty slots 6, 7
C10_Witness ==
    /\ last.op = "addItem"
    /\ last.args = <<"stone", 100>>
    /\ last.ret = 0
    /\ inventory.slots[1] = Stack("grass", 64)
    /\ inventory.slots[3] = Stack("stone", 64)
    /\ inventory.slots[7] = Stack("stone", 64)
    /\ inventory.slots[8] = Stack("stone", 4)

-----------------------------------------------------------------------------
(* Claims about mining in the running game (Spec) *)

\* the cell the centre ray resolves to (<<>> when it hits nothing), computed
\* from the aimed face and the block map
ResolvedCell ==
    IF camera.aim = NoAim THEN <<>>
    ELSE LET front == AddScaled(camera.aim.cell, camera.aim.normal, 10)
         IN  IF camera.aim.cell \in DOMAIN meshWorld.world
                /\ front \notin DOMAIN meshWorld.world
                /\ WithinFar(camera.position,
                             AddScaled(Centre(camera.aim.cell), camera.aim.normal, 5))
             THEN CellOf(AddScaled(AddScaled(Centre(camera.aim.cell), camera.aim.normal, 5),
                                   camera.aim.normal, -1))
             ELSE <<>>

ResolvedType == IF ResolvedCell = <<>> THEN "none" ELSE meshWorld.world[ResolvedCell].type

\* the number of items of a type over all slots
TotalCount(inv, item) ==
    SumOver({i \in 1..Len(inv.slots) : inv.slots[i] # Null /\ inv.slots[i].item = item},
            [i \in 1..Len(inv.slots) |-> IF inv.slots[i] = Null THEN 0 ELSE inv.slots[i].count])

SelectedIsTool ==
    /\ inventory.slots[inventory.selectedSlot + 1] # Null
    /\ inventory.slots[inventory.selectedSlot + 1].item \in {"wooden_pickaxe", "stone_pickaxe"}

Idle(m) == ~m.breaking /\ m.target = NullTarget /\ m.progress = 0

\* a frame in which the mining update completes a session
Completes == last'.op = "tick" /\ last'.ret # NullTarget

\* C1: whenever MiningSystem.update brings the progress of a Breaking session
\* to at least requiredTime, the targeted block is removed from the world and
\* the inventory's total count of the mined type grows by exactly 1, whatever
\* the inventory holds.
C1_CompletionGrantsOne ==
    [][Completes
         => /\ mining.breaking /\ mining.progress + last'.args[1] >= mining.requiredTime
            /\ last'.ret = mining.target
            /\ mining.target.position \in DOMAIN meshWorld.world
            /\ mining.target.position \notin DOMAIN meshWorld'.world
            /\ ~OccupiedInst(instWorld', mining.target.position)
            /\ TotalCount(inventory', mining.target.type)
                 = TotalCount(inventory, mining.target.type) + 1]_vars

\* C2: startBreaking aimed at a stone block while the selected stack is empty
\* or is not a tool returns false and creates no mining state: the mining
\* fields are left as they were, so from Idle breaking stays false, target
\* stays null and progress stays 0.
C2_StoneNeedsTool ==
    [][(last'.op = "mousedown" /\ last'.args = <<0>> /\ input.isLocked
        /\ ResolvedType = "stone" /\ ~SelectedIsTool)
         => /\ last'.ret = FALSE
            /\ mining' = mining
            /\ Idle(mining) => Idle(mining')]_vars

\* a left press, under pointer lock, on a stone block with a block stack
\* selected: refused, the state machine still Idle
C2_Witness ==
    /\ last.op = "mousedown"
    /\ last.args = <<0>>
    /\ last.ret = FALSE
    /\ input.isLocked
    /\ ResolvedType = "stone"
    /\ ~SelectedIsTool
    /\ Idle(mining)

\* C3: releasing the left mouse button always leaves the mining state machine
\* Idle with progress discarded (breaking = false, target = null, progress =
\* 0), whether or not the pointer is locked, and every successful
\* startBreaking begins its session at progress 0.
C3_ReleaseResets ==
    [][/\ (last'.op = "mouseup" /\ last'.args = <<0>>) => Idle(mining')
       /\ (last'.op = "mousedown" /\ last'.ret = TRUE /\ last'.args = <<0>>)
            => mining'.breaking /\ mining'.progress = 0]_vars

\* the left button released without pointer lock while a session had
\* accumulated progress
C3_Witness ==
    /\ last.op = "mouseup"
    /\ last.args = <<0>>
    /\ last.ret > 0
    /\ ~input.isLocked
    /\ Idle(mining)

\* C4: if pointer lock is lost while the state machine is Breaking, the
\* session is cancelled before the next frame's mining update, so no frame
\* breaks a block while the pointer is unlocked.
C4_NoBreakAfterLockLoss ==
    [][Completes => input.isLocked]_vars

\* C5: while Breaking, a crosshair that no longer resolves to the stored
\* target cancels the session, so a frame completes a session only for the
\* block the crosshair resolves to in that frame.
C5_BreakOnlyResolvedTarget ==
    [][Completes => ResolvedCell = mining.target.position]_vars

-----------------------------------------------------------------------------
(* Further claims about the InventoryManager (SpecInv) *)

\* C11: for addItem(item, n) with n > 0 the returned leftover r satisfies
\* 0 <= r <= n and is exactly what was not placed: the total of the item
\* grows by n - r, slots holding other items are unchanged, and r > 0 only
\* if afterwards no slot is empty and every stack of the item is at its limit.
C11_LeftoverIsUnplaced ==
    [][(last'.op = "addItem" /\ last'.args[2] > 0)
         => LET item == last'.args[1]
                n == last'.args[2]
                r == last'.ret
            IN  /\ 0 <= r /\ r <= n
                /\ TotalCount(inventory', item) = TotalCount(inventory, item) + n - r
                /\ \A i \in 1..Len(inventory.slots) :
                       (inventory.slots[i] # Null /\ inventory.slots[i].item # item)
                         => inventory'.slots[i] = inventory.slots[i]
                /\ r > 0 => \A i \in 1..Len(inventory'.slots) :
                                /\ inventory'.slots[i] # Null
                                /\ inventory'.slots[i].item = item
                                     => inventory'.slots[i].count = LimitOf(item)]_vars

\* addItem('stone', 600) on the default hotbar: 160 placed, 440 returned
C11_Witness ==
    /\ last.op = "addItem"
    /\ last.args = <<"stone", 600>>
    /\ last.ret = 440
    /\ inventory.slots[1] = Stack("grass", 64)
    /\ TotalCount(inventory, "stone") = 192

\* C12: after any sequence of populateHotbar(DEFAULT_HOTBAR), addItem,
\* consumeSelected(1), selectSlot and scrollSelection every non-empty slot
\* holds a count c with 1 <= c <= limit, the limit being 1 for tools and 64
\* for every other item.
C12_CountsWithinLimit ==
    \A i \in 1..Len(inventory.slots) :
        inventory.slots[i] # Null
          => /\ 1 <= inventory.slots[i].count
             /\ inventory.slots[i].count <= LimitOf(inventory.slots[i].item)

\* the default hotbar, then addItem('wooden_pickaxe', 100): one pickaxe in
\* each of the two free slots, next to the one of slot 4
C12_Witness ==
    /\ last.op = "addItem"
    /\ last.args = <<"wooden_pickaxe", 100>>
    /\ last.ret = 98
    /\ inventory.slots[5] = Stack("wooden_pickaxe", 1)
    /\ inventory.slots[7] = Stack("wooden_pickaxe", 1)
    /\ inventory.slots[8] = Stack("wooden_pickaxe", 1)

-----------------------------------------------------------------------------
(* SpecSelect: hotbar selection, through the InventoryManager API and       *)
(* through the digit keys and the wheel                                     *)

SelectCodes ==
    {Code("Digit", "1"), Code("Digit", "8"), Code("Digit", "9"), Code("Digit", "0"),
     Code("Numpad", "3"), Code("Numpad", "Enter")}

SelectWheelDeltas == {-250, 0, 100}

InitSelect ==
    /\ InitGame
    /\ budget = [invOps |-> MaxInvOps, steps |-> MaxInvOps]

NextSelect ==
    \/ \E index \in InvIndexes : CallSelectSlot(index)
    \/ \E delta \in InvDeltas : CallScrollSelection(delta)
    \/ \E code \in SelectCodes, repeat \in BOOLEAN : KeyDown(code, repeat)
    \/ \E deltaY \in SelectWheelDeltas : Wheel(deltaY)
    \/ OverlayClick
    \/ PointerUnlock

SpecSelect == InitSelect /\ [][NextSelect]_vars

\* C13: the selected hotbar index is an integer in [0, size) in every
\* reachable state, whatever integer selectSlot and scrollSelection are
\* given and whatever digit, numpad and wheel events arrive.
C13_SelectedInRange ==
    inventory.selectedSlot \in 0..(Len(inventory.slots) - 1)

\* selectSlot with an out-of-range argument was just ignored while the last
\* slot was selected
C13_Witness ==
    /\ last.op = "selectSlot"
    /\ last.args[1] \notin 0..7
    /\ inventory.selectedSlot = 7

\* C14: scrollSelection(delta) selects the non-negative residue of
\* (selected + delta) modulo the hotbar size for every integer delta; -1
\* from slot 0 of the 8 slots selects slot 7.  A wheel event under pointer
\* lock scrolls by the sign of deltaY.
C14_ScrollWraps ==
    [][/\ last'.op = "scrollSelection"
            => /\ inventory'.selectedSlot = (inventory.selectedSlot + last'.args[1]) % 8
               /\ last'.ret = inventory'.selectedSlot
               /\ (inventory.selectedSlot = 0 /\ last'.args[1] = -1)
                    => inventory'.selectedSlot = 7
       /\ (last'.op = "wheel" /\ input.isLocked)
            => inventory'.selectedSlot
                 = (inventory.selectedSlot
                      + (IF last'.args[1] > 0 THEN 1 ELSE IF last'.args[1] < 0 THEN 7 ELSE 0)) % 8
      ]_vars

\* the first call after construction was scrollSelection(-1): slot 7
C14_Witness ==
    /\ last.op = "scrollSelection"
    /\ last.args = <<-1>>
    /\ last.ret = 7
    /\ inventory.selectedSlot = 7
    /\ budget = [invOps |-> MaxInvOps - 1, steps |-> MaxInvOps]

-----------------------------------------------------------------------------
(* SpecCmd: CommandSystem.execute on an InventoryManager, from the empty    *)
(* inventory, with the hotbar defaults loaded at any time                   *)

\* the command lines executed
CmdInputs ==
    {Text(FALSE, <<>>),
     Text(TRUE, <<>>),
     Text(FALSE, <<"fly">>),
     Text(TRUE, <<"give">>),
     Text(TRUE, <<"give", "unicorn">>),
     Text(TRUE, <<"give", "constructor">>),
     Text(TRUE, <<"give", "stone", "0">>),
     Text(TRUE, <<"give", "stone", "-3">>),
     Text(TRUE, <<"give", "stone", "abc">>),
     Text(TRUE, <<"give", "stone", "2.5">>),
     Text(TRUE, <<"give", "stone">>),
     Text(TRUE, <<"give", "stone", "10">>),
     Text(FALSE, <<"GIVE", "Stone", "600">>),
     Text(TRUE, <<"give", "wooden_pickaxe", "2">>)}

CallExecute(rawInput) ==
    /\ budget.invOps > 0
    /\ inventory' = execute(inventory, rawInput).inv
    /\ last' = Event("execute", <<rawInput>>, execute(inventory, rawInput).entry)
    /\ budget' = [budget EXCEPT !.invOps = @ - 1]
    /\ UNCHANGED othersI

NextCmd ==
    \/ CallPopulateHotbar
    \/ \E rawInput \in CmdInputs : CallExecute(rawInput)

SpecCmd == InitInv /\ [][NextCmd]_vars

\* the numerals that denote a positive integer
PositiveIntegers == [w \in {"1", "2", "10", "64", "600"} |->
                        CASE w = "1" -> 1 [] w = "2" -> 2 [] w = "10" -> 10
                          [] w = "64" -> 64 [] w = "600" -> 600]

\* the item a name denotes, letter case aside
ItemNames ==
    [w \in {"stone", "Stone", "STONE", "wooden_pickaxe"} |->
        IF w = "wooden_pickaxe" THEN w ELSE "stone"]

IsGive(text) == text.words # <<>> /\ text.words[1] \in {"give", "Give", "GIVE"}

\* the class of a command line: blank, unknown command, bad count, unknown
\* item, usage (give without an item), valid
InputClass(text) ==
    IF ~text.slash /\ text.words = <<>> THEN "blank"
    ELSE IF ~IsGive(text) THEN "unknown command"
    ELSE IF Len(text.words) = 1 THEN "usage"
    ELSE IF Len(text.words) >= 3 /\ text.words[3] \notin DOMAIN PositiveIntegers THEN "bad count"
    ELSE IF text.words[2] \notin DOMAIN ItemNames THEN "unknown item"
    ELSE "valid"

ErrorOf(class) ==
    CASE class = "blank" -> "enter a command"
      [] class = "unknown command" -> "unknown command"
      [] class = "bad count" -> "count must be a positive integer"
      [] class = "unknown item" -> "unknown item"

\* C15: execute returns an error-level entry and leaves every slot unchanged
\* for blank input, an unknown command word, an item name that is no block
\* or tool type, and a count that is not a positive integer (zero, negative,
\* non-numeric, non-integer); each class has its own message.
C15_ErrorsLeaveInventory ==
    [][(last'.op = "execute"
        /\ InputClass(last'.args[1]) \in {"blank", "unknown command", "bad count", "unknown item"})
         => /\ last'.ret.level = "error"
            /\ last'.ret.message[1] = ErrorOf(InputClass(last'.args[1]))
            /\ inventory' = inventory]_vars

\* C16: a valid give of a known item with amount n and addItem leftover r
\* logs, for r = 0, an info entry reporting n received; for 0 < r < n an
\* info entry reporting n - r received and r left over; for r = n an error
\* entry (inventory full) with the inventory unchanged.  '/give stone 10'
\* on the empty inventory leaves exactly one stack of 10 stone.
C16_GiveReportsReceived ==
    [][(last'.op = "execute" /\ InputClass(last'.args[1]) = "valid")
         => LET words == last'.args[1].words
                item == ItemNames[words[2]]
                n == IF Len(words) >= 3 THEN PositiveIntegers[words[3]] ELSE 1
                r == ExpectedLeftover(inventory.slots, item, n, LimitOf(item))
                entry == last'.ret
            IN  /\ inventory'.slots = ExpectedSlots(inventory.slots, item, n, LimitOf(item))
                /\ r = 0 => /\ entry.level = "info"
                            /\ entry.message = <<"received", n, item>>
                /\ (0 < r /\ r < n) => /\ entry.level = "info"
                                       /\ entry.message = <<"received", n - r, item, "left over", r>>
                /\ r = n => /\ entry.level = "error"
                            /\ entry.message = <<"inventory full">>
                            /\ inventory' = inventory
                /\ (inventory.slots = [i \in 1..8 |-> Null]
                    /\ last'.args[1] = Text(TRUE, <<"give", "stone", "10">>))
                     => inventory'.slots =
                          [i \in 1..8 |-> IF i = 1 THEN Stack("stone", 10) ELSE Null]]_vars

\* a give that was partly fulfilled, followed by one that found the
\* inventory full
C16_Witness ==
    /\ last.op = "execute"
    /\ last.args = <<Text(FALSE, <<"GIVE", "Stone", "600">>)>>
    /\ last.ret = LogEntry(<<"inventory full">>, "error")
    /\ \A i \in 1..8 : inventory.slots[i] # Null
    /\ TotalCount(inventory, "stone") = 192

-----------------------------------------------------------------------------
(* SpecMine: MiningSystem.startBreaking / stopBreaking called on a world    *)
(* holding one block of every catalog type, with the default hotbar and     *)
(* any selected slot                                                        *)

\* one block of each type, side by side, all within reach of the eye
RowCell(i) == <<10 * (i - 5), 0, 0>>

RECURSIVE RowWorld(_)
RowWorld(n) ==
    IF n = 0 THEN [world |-> <<>>, objects |-> <<>>, nextMesh |-> 0]
    ELSE addBlock(RowWorld(n - 1), RowCell(n)[1], RowCell(n)[2], RowCell(n)[3], BLOCK_TYPES[n])

RECURSIVE RowWorldInst(_)
RowWorldInst(n) ==
    IF n = 0 THEN initMeshes
    ELSE addBlockInst(RowWorldInst(n - 1), RowCell(n)[1], RowCell(n)[2], RowCell(n)[3],
                      BLOCK_TYPES[n])

MineAims == {NoAim} \cup {Aim(RowCell(i), Up) : i \in 1..Len(BLOCK_TYPES)}

MineIndexes == {0, 4, 5, 7}

InitMine ==
    /\ meshWorld = RowWorld(Len(BLOCK_TYPES))
    /\ instWorld = RowWorldInst(Len(BLOCK_TYPES))
    /\ inventory = populateHotbar(NewInventory(HOTBAR_SIZE), DEFAULT_HOTBAR)
    /\ mining = NewMining
    /\ input = [isLocked |-> FALSE,
                moveState |-> [forward |-> FALSE, backward |-> FALSE,
                               left |-> FALSE, right |-> FALSE],
                jump |-> FALSE, sprint |-> FALSE, listening |-> TRUE, held |-> NoKey, impulses |-> 0]
    /\ ui = [isConsoleOpen |-> FALSE, commandInput |-> Text(FALSE, <<>>)]
    /\ camera = [aim |-> NoAim, position |-> <<0, 10 + EYE_HEIGHT, 5>>]
    /\ physics = [onGround |-> TRUE]
    /\ loop = [running |-> TRUE, selector |-> [visible |-> FALSE, position |-> <<0, 0, 0>>]]
    /\ last = Event("init", <<>>, 0)
    /\ budget = [invOps |-> MaxInvOps]

\* the camera is turned to the aim and startBreaking is called
CallStartBreaking(aim) ==
    LET cam == [camera EXCEPT !.aim = aim]
        started == startBreaking(mining, cam, getObjects(meshWorld), meshWorld,
                                 getSelectedStack(inventory))
    IN  /\ budget.invOps > 0
        /\ camera' = cam
        /\ mining' = started.mining
        /\ last' = Event("startBreaking", <<aim>>, started.ret)
        /\ budget' = [budget EXCEPT !.invOps = @ - 1]
        /\ UNCHANGED <<meshWorld, instWorld, inventory, input, ui, physics, loop>>

CallStopBreaking ==
    /\ budget.invOps > 0
    /\ mining' = stopBreaking(mining)
    /\ last' = Event("stopBreaking", <<>>, 0)
    /\ budget' = [budget EXCEPT !.invOps = @ - 1]
    /\ UNCHANGED <<meshWorld, instWorld, inventory, input, ui, camera, physics, loop>>

\* update(delta) is called; a completed session runs options.onBlockBroken
CallUpdate(delta) ==
    LET mined == update(mining, delta)
        broken == IF mined.broken # NullTarget
                  THEN onBlockBroken(meshWorld, instWorld, inventory, mined.broken)
                  ELSE [mw |-> meshWorld, iw |-> instWorld, inv |-> inventory]
    IN  /\ budget.invOps > 0
        /\ mining' = mined.mining
        /\ meshWorld' = broken.mw
        /\ instWorld' = broken.iw
        /\ inventory' = broken.inv
        /\ last' = Event("update", <<delta>>, mined.broken)
        /\ budget' = [budget EXCEPT !.invOps = @ - 1]
        /\ UNCHANGED <<input, ui, camera, physics, loop>>

NextMine ==
    \/ \E index \in MineIndexes : CallSelectSlot(index)
    \/ \E aim \in MineAims : CallStartBreaking(aim)
    \/ CallStopBreaking
    \/ \E delta \in Deltas : CallUpdate(delta)

SpecMine == InitMine /\ [][NextMine]_vars

\* the efficiency (in tenths) of what is held
HeldEfficiency(inv) ==
    LET held == inv.slots[inv.selectedSlot + 1].item
    IN  IF held \in DOMAIN TOOLS THEN TOOLS[held].efficiency ELSE 10

\* C17: after a successful startBreaking, requiredTime is
\* max(0.15 s, 0.8 s * hardness / efficiency), the efficiency being that of
\* the selected tool, or 1 when no tool is selected; stone with the stone
\* pickaxe takes 0.9 s; no combination takes less than 0.15 s.
C17_RequiredTime ==
    [][(last'.op = "startBreaking" /\ last'.ret = TRUE)
         => LET type == meshWorld.world[last'.args[1].cell].type
                h == BLOCKS[type].hardness
                e == HeldEfficiency(inventory)
            IN  /\ mining'.breaking
                /\ mining'.target.type = type
                /\ mining'.requiredTime * e = MaxOf(450 * e, 2400 * h)
                /\ mining'.requiredTime >= 450
                /\ (type = "stone" /\ e = 16) => mining'.requiredTime = 2700]_vars

\* stone is being broken with the stone pickaxe selected
C17_Witness ==
    /\ last.op = "startBreaking"
    /\ last.ret = TRUE
    /\ mining.target.type = "stone"
    /\ getSelectedStack(inventory).item = "stone_pickaxe"
    /\ mining.requiredTime = 2700

-----------------------------------------------------------------------------
(* SpecFrame: the animation frame with the player mining the ground it      *)
(* stands on                                                                *)

\* events and frames of a run of SpecFrame
MaxFrameSteps == 8

\* events and frames of a run of SpecTeardown
MaxTeardownSteps == 6

\* the tops of the two grass blocks the player lands on
FrameAims == {Aim(<<-10, 10, 0>>, Up), Aim(<<-10, 10, -10>>, Up)}

InitFrame ==
    /\ InitGame
    /\ budget = [places |-> 0, gives |-> 0, steps |-> MaxFrameSteps]

NextFrame ==
    \/ OverlayClick
    \/ \E aim \in FrameAims : MouseMove(aim)
    \/ \E button \in {0} : MouseDown(button)
    \/ \E button \in {0} : MouseUp(button)
    \/ \E delta \in Deltas : Tick(delta)

SpecFrame == InitFrame /\ [][NextFrame]_vars

\* the height of the highest block under the player box, -100 without one
SupportTop(w, position) ==
    IF BlocksUnder(w, position) = {} THEN -100
    ELSE 10 + CHOOSE c \in BlocksUnder(w, position) : \A d \in BlocksUnder(w, position) : d <= c

-----------------------------------------------------------------------------
(* SpecKeys: the keyboard (fresh presses, auto-repeat, releases) with the   *)
(* animation frame                                                          *)

KeysCodes == {Code("Space", ""), Code("Key", "T"), Code("Digit", "2")}

InitKeys ==
    /\ InitGame
    /\ budget = [places |-> 0, gives |-> 0, steps |-> MaxSteps]

NextKeys ==
    \/ \E code \in KeysCodes, repeat \in BOOLEAN : KeyDown(code, repeat)
    \/ \E code \in KeysCodes : KeyUp(code)
    \/ OverlayClick
    \/ PointerUnlock
    \/ \E delta \in {450} : Tick(delta)

SpecKeys == InitKeys /\ [][NextKeys]_vars

\* C19: a keydown repeated by the keyboard for a key that is still held
\* fires neither the console-open callback nor the slot-select callback
\* (each fires at most once per physical press).
C19_RepeatFiresNothing ==
    [][(last'.op = "keydown" /\ last'.args[2]) => last'.ret = {}]_vars

\* C20: between a press of Space and its release the jump impulse is
\* applied at most once, however long the key is held and however often the
\* player lands; the impulse is applied only in a frame that starts on the
\* ground with the pointer locked.
C20_OneJumpPerPress ==
    [][(last'.op = "tick" /\ last'.args[2])
         => /\ physics.onGround
            /\ input.isLocked
            /\ input'.impulses <= 1]_vars

-----------------------------------------------------------------------------
(* PhysicsEngine.update at the level of its sub-steps, for a player whose   *)
(* pointer is not locked (the block `if (input.controls.isLocked)` is       *)
(* skipped: no friction, no walking, no jump request).  Here a position is  *)
(* an integer number of 1/3000 of a block and a velocity an integer number  *)
(* of 1/100 of a block per second; with frame times that are multiples of   *)
(* 1/30 s every product below is an integer, so the arithmetic is exact.    *)

\* tenths of a block -> 1/3000 of a block
Fine(tenths) == 300 * tenths

\* Math.floor and Math.ceil of a coordinate, as a coordinate
FloorFine(v) == (v \div Fine(10)) * Fine(10)

CeilFine(v) == -FloorFine(-v)

GRAVITY == 30

JUMP_FORCE == 8

\* 0.02 of a block
AIRBORNE_PADDING == 60

subSteps == 5

\* velocity * seconds, as a distance: v/100 blocks per second during
\* delta/3000 seconds, divided among the sub-steps
moveOf(v, delta) == (v * delta) \div (100 * subSteps)

Translate(box, d) ==
    [min |-> <<box.min[1] + d[1], box.min[2] + d[2], box.min[3] + d[3]>>,
     max |-> <<box.max[1] + d[1], box.max[2] + d[2], box.max[3] + d[3]>>]

getPlayerBox(position) ==
    [min |-> <<position[1] - Fine(PLAYER_WIDTH) \div 2,
               position[2] - Fine(EYE_HEIGHT),
               position[3] - Fine(PLAYER_WIDTH) \div 2>>,
     max |-> <<position[1] + Fine(PLAYER_WIDTH) \div 2,
               position[2] - Fine(EYE_HEIGHT) + Fine(PLAYER_HEIGHT),
               position[3] + Fine(PLAYER_WIDTH) \div 2>>]

\* for (c = Math.floor(box.min); c < box.max; c++) on each axis
checkCollision(box, w) ==
    \E key \in DOMAIN w.world :
        \A a \in 1..3 : FloorFine(box.min[a]) <= Fine(key[a]) /\ Fine(key[a]) < box.max[a]

\* the box of the X and Z sweeps: lifted by 0.1 when grounded, padded when not
SweepBox(position, d, grounded) ==
    LET box == Translate(getPlayerBox(position), d)
    IN  IF grounded
        THEN [box EXCEPT !.min[2] = @ + Fine(1)]
        ELSE [min |-> <<box.min[1] - AIRBORNE_PADDING, box.min[2] - AIRBORNE_PADDING,
                        box.min[3] - AIRBORNE_PADDING>>,
              max |-> <<box.max[1] + AIRBORNE_PADDING, box.max[2] + AIRBORNE_PADDING,
                        box.max[3] + AIRBORNE_PADDING>>]

\* the Y-AXIS part of a sub-step
SweepY(s, w, move) ==
    LET box == Translate(getPlayerBox(s.position), <<0, move, 0>>)
    IN  IF checkCollision(box, w)
        THEN IF s.velocity[2] < 0
             THEN [s EXCEPT !.groundedThisFrame = TRUE,
                            !.landed = TRUE,
                            !.position[2] = FloorFine(box.min[2]) + Fine(10) + Fine(EYE_HEIGHT),
                            !.velocity[2] = 0]
             ELSE IF s.velocity[2] > 0
             THEN [s EXCEPT !.position[2] = CeilFine(box.max[2]) - Fine(10)
                                              - Fine(PLAYER_HEIGHT - EYE_HEIGHT) - 3,
                            !.velocity[2] = 0]
             ELSE [s EXCEPT !.velocity[2] = 0]
        ELSE [s EXCEPT !.position[2] = @ + move]

\* the X-AXIS (a = 1) or Z-AXIS (a = 3) part of a sub-step, auto-jump included
SweepH(s, w, move, a) ==
    LET d == [i \in 1..3 |-> IF i = a THEN move ELSE 0]
        box == SweepBox(s.position, d, s.groundedThisFrame \/ s.onGround)
        climbBox == [Translate(box, <<0, Fine(11), 0>>) EXCEPT !.min[2] = @ - Fine(1)]
        climbs == s.groundedThisFrame /\ ~checkCollision(climbBox, w)
    IN  IF checkCollision(box, w)
        THEN IF climbs
             THEN [s EXCEPT !.velocity[2] = 100 * JUMP_FORCE,
                            !.velocity[a] = 0,
                            !.groundedThisFrame = FALSE,
                            !.onGround = FALSE,
                            !.position[2] = @ + Fine(1) \div 10]
             ELSE [s EXCEPT !.velocity[a] = 0]
        ELSE [s EXCEPT !.position[a] = @ + move]

\* one iteration of the sub-step loop: moveStep is taken from the velocity
\* the iteration starts with
SubStep(s, w, delta) ==
    SweepH(SweepH(SweepY(s, w, moveOf(s.velocity[2], delta)),
                  w, moveOf(s.velocity[1], delta), 1),
           w, moveOf(s.velocity[3], delta), 3)

\* the sub-step loop: the state it starts with, followed by the state after
\* each of its i iterations
RECURSIVE SubStepLoop(_, _, _, _)
SubStepLoop(s, w, delta, i) ==
    IF i = 0 THEN <<s>>
    ELSE LET before == SubStepLoop(s, w, delta, i - 1)
         IN  Append(before, SubStep(before[Len(before)], w, delta))

\* update(delta, player, world, input) with the pointer not locked: the
\* position, velocity and onGround afterwards, and whether any sub-step
\* detected a downward Y collision
updateUnlocked(ph, position, w, delta) ==
    LET start == [position |-> position,
                  velocity |-> [ph.velocity EXCEPT ![2] = @ - (GRAVITY * 100 * delta) \div 3000],
                  groundedThisFrame |-> FALSE,
                  onGround |-> ph.onGround,
                  landed |-> FALSE]
        end == SubStepLoop(start, w, delta, subSteps)[subSteps + 1]
    IN  [position |-> end.position,
         velocity |-> end.velocity,
         onGround |-> end.groundedThisFrame,
         landed |-> end.landed]

-----------------------------------------------------------------------------
(* SpecPhysics: frames of the physics alone, on a single block for a        *)
(* falling player and on a floor with a step for a player that drifts       *)
(* into the step                                                            *)

\* frames of a run of SpecPhysics
MaxFallTicks == 12

\* frame times: 1/30 s, 0.1 s, 0.5 s
FallDeltas == {100, 300, 1500}

\* heights of the feet over the block at the start of the fall
FallHeights == {Fine(5), Fine(20), Fine(50)}

EmptyWorld == [world |-> <<>>, objects |-> <<>>, nextMesh |-> 0]

SingleBlock == addBlock(EmptyWorld, 0, 0, 0, "stone")

\* the top of the single block
BlockTop == Fine(10)

FloorWithStep ==
    addBlock(addBlock(addBlock(EmptyWorld, 0, 0, 0, "stone"), 10, 0, 0, "stone"),
             10, 10, 0, "grass")

InitPhysics ==
    /\ instWorld = initMeshes
    /\ inventory = NewInventory(HOTBAR_SIZE)
    /\ mining = NewMining
    /\ input = [isLocked |-> FALSE,
                moveState |-> [forward |-> FALSE, backward |-> FALSE,
                               left |-> FALSE, right |-> FALSE],
                jump |-> FALSE, sprint |-> FALSE, listening |-> TRUE,
                held |-> NoKey, impulses |-> 0]
    /\ ui = [isConsoleOpen |-> FALSE, commandInput |-> Text(FALSE, <<>>)]
    /\ loop = [running |-> TRUE, selector |-> [visible |-> FALSE, position |-> <<0, 0, 0>>]]
    /\ last = Event("init", <<>>, FALSE)
    /\ budget = [steps |-> MaxFallTicks]
    /\ \/ /\ meshWorld = SingleBlock
          /\ \E h \in FallHeights :
                camera = [aim |-> NoAim,
                          position |-> <<Fine(5), BlockTop + h + Fine(EYE_HEIGHT), Fine(5)>>]
          /\ physics = [onGround |-> FALSE, velocity |-> <<0, 0, 0>>]
       \/ /\ meshWorld = FloorWithStep
          /\ camera = [aim |-> NoAim,
                       position |-> <<Fine(5) + 750, BlockTop + Fine(EYE_HEIGHT), Fine(5)>>]
          /\ physics = [onGround |-> TRUE, velocity |-> <<500, 0, 0>>]

\* one animation frame, as far as the physics goes
Frame(delta) ==
    LET moved == updateUnlocked(physics, camera.position, meshWorld, delta)
    IN  /\ budget.steps > 0
        /\ physics' = [onGround |-> moved.onGround, velocity |-> moved.velocity]
        /\ camera' = [camera EXCEPT !.position = moved.position]
        /\ last' = Event("frame", <<delta>>, moved.landed)
        /\ budget' = Spend(budget)
        /\ UNCHANGED <<meshWorld, instWorld, inventory, mining, input, ui, loop>>

NextPhysics == \E delta \in FallDeltas : Frame(delta)

SpecPhysics == InitPhysics /\ [][NextPhysics]_vars

\* C21: a player falling onto a single block with no horizontal input never
\* passes into or through the block, and is grounded only at rest on the
\* block, with position.y = blockTop + EYE_HEIGHT and velocity.y = 0, for
\* every fall height and every frame time.
C21_FallComesToRest ==
    meshWorld = SingleBlock
      => /\ camera.position[2] - Fine(EYE_HEIGHT) >= BlockTop
         /\ physics.onGround
              => /\ camera.position[2] = BlockTop + Fine(EYE_HEIGHT)
                 /\ physics.velocity[2] = 0

\* C24: the onGround flag stored at the end of a physics update is the OR,
\* over the sub-steps of that update, of "this sub-step detected a downward
\* Y collision": a landing detected in any sub-step leaves the player
\* grounded for the next frame.
C24_GroundedIsAnyLanding ==
    [][last'.op = "frame" => physics'.onGround = last'.ret]_vars

-----------------------------------------------------------------------------
(* Claims about placing blocks in the running game (checked under Spec)     *)

\* the cell with corner `key` overlaps the box of a player whose eye is at
\* `position` (lengths in tenths of a block)
OverlapsPlayer(key, position) ==
    /\ key[1] < position[1] + PLAYER_WIDTH \div 2
    /\ key[1] + 10 > position[1] - PLAYER_WIDTH \div 2
    /\ key[2] < position[2] - EYE_HEIGHT + PLAYER_HEIGHT
    /\ key[2] + 10 > position[2] - EYE_HEIGHT
    /\ key[3] < position[3] + PLAYER_WIDTH \div 2
    /\ key[3] + 10 > position[3] - PLAYER_WIDTH \div 2

\* C22: a place action (right button) never adds a block to a cell that
\* overlaps the player's own bounding box; such a placement is rejected and
\* the world is left unchanged.
C22_NoPlacementInsidePlayer ==
    [][(last'.op = "mousedown" /\ last'.args = <<2>>)
         => \A key \in DOMAIN meshWorld'.world \ DOMAIN meshWorld.world :
                ~OverlapsPlayer(key, camera.position)]_vars

-----------------------------------------------------------------------------
(* Teardown: the cleanup of the game effect.  SpecTeardown is the running   *)
(* game with the cleanup run at any moment; the browser goes on delivering  *)
(* keyboard, mouse and wheel events to the document afterwards.             *)

\* an InputManager.dispose that leaves the document listeners in place
disposeKeepListeners(inp) == inp

\* InputManager.dispose: the five document listeners are removed, and
\* controls.dispose() disconnects the PointerLockControls
dispose(inp) == [inp EXCEPT !.listening = FALSE]

\* MiningSystem.dispose: the overlay mesh and texture are released; the
\* session fields are not touched
disposeMining(m) == m

\* WorldManager.dispose: world.clear(), objects = []
disposeWorld(w) == [w EXCEPT !.world = <<>>, !.objects = <<>>]

\* WorldManager.dispose, instanced variant: meshes, blockMap and counts cleared
disposeWorldInst(w) == [blockMap |-> <<>>, counts |-> <<>>, meshes |-> <<>>]

\* the cleanup function returned by the effect: cancelAnimationFrame, then
\* input.dispose(), miningSystem.dispose(), world.dispose()
Teardown ==
    /\ budget.steps > 0
    /\ loop.running
    /\ loop' = [loop EXCEPT !.running = FALSE]
    /\ input' = dispose(input)
    /\ mining' = disposeMining(mining)
    /\ meshWorld' = disposeWorld(meshWorld)
    /\ instWorld' = disposeWorldInst(instWorld)
    /\ last' = Event("teardown", <<>>, 0)
    /\ budget' = Spend(budget)
    /\ UNCHANGED <<inventory, ui, camera, physics>>

\* a document event for which no listener is registered
Unheard(type) ==
    /\ budget.steps > 0
    /\ ~input.listening
    /\ last' = Event("unheard", <<type>>, 0)
    /\ budget' = Spend(budget)
    /\ UNCHANGED <<meshWorld, instWorld, inventory, mining, input, ui, camera, physics, loop>>

TeardownCodes == {Code("Space", ""), Code("Key", "T"), Code("Digit", "2")}

DocumentEvents == {"keydown", "keyup", "mousedown", "mouseup", "wheel"}

InitTeardown ==
    /\ InitGame
    /\ budget = [places |-> MaxPlaces, gives |-> 0, steps |-> MaxTeardownSteps]

NextTeardown ==
    \/ \E code \in TeardownCodes, repeat \in BOOLEAN : KeyDown(code, repeat)
    \/ \E code \in TeardownCodes : KeyUp(code)
    \/ \E button \in {0, 2} : MouseDown(button)
    \/ \E button \in {0} : MouseUp(button)
    \/ \E deltaY \in {100} : Wheel(deltaY)
    \/ \E aim \in {Aim(<<-10, 10, 0>>, Up)} : MouseMove(aim)
    \/ OverlayClick
    \/ \E delta \in {1800} : Tick(delta)
    \/ Teardown
    \/ \E type \in DocumentEvents : Unheard(type)

SpecTeardown == InitTeardown /\ [][NextTeardown]_vars

\* C23: once the cleanup has run, no keyboard, mouse or wheel event and no
\* frame changes the input flags, the inventory, the world or the mining
\* state, and no game callback runs (no frame, no handler: the only steps
\* left are events nobody listens to); every document listener of the
\* InputManager is removed.
C23_NothingAfterTeardown ==
    [][~loop.running
         => /\ UNCHANGED <<meshWorld, instWorld, inventory, mining, input, ui, camera,
                           physics, loop>>
            /\ last'.op = "unheard"
            /\ ~input.listening]_vars

\* after a cleanup that interrupted a mining session, the release of the
\* button arrives and is heard by nobody
C23_Witness ==
    /\ ~loop.running
    /\ last = Event("unheard", <<"mouseup">>, 0)
    /\ mining.breaking
    /\ input.isLocked

-----------------------------------------------------------------------------
(* Claims about the MiningSystem state (checked under SpecMine and Spec)    *)

\* C25: in every state of the MiningSystem between two calls, breaking is
\* true exactly when a target is stored; progress is 0 whenever breaking is
\* false; while breaking is true, 0 <= progress < requiredTime.
C25_MiningStateInvariant ==
    /\ mining.breaking <=> mining.target # NullTarget
    /\ ~mining.breaking => mining.progress = 0
    /\ mining.breaking => (0 <= mining.progress /\ mining.progress < mining.requiredTime)

\* a session that has made progress in two updates without completing
C25_Witness ==
    /\ last.op = "update"
    /\ mining.breaking
    /\ mining.progress = 900
    /\ mining.target.type = "tnt"

-----------------------------------------------------------------------------
(* SpecDig: the player has clicked the canvas, landed and looks at the top  *)
(* face of the stone block (0,0,0); selection changes, mouse buttons and    *)
(* frames follow in any order.                                              *)

\* events and frames of one explored run
MaxDigSteps == 6

DigCodes == {Code("Digit", "1"), Code("Numpad", "5")}

\* hotbar buttons clicked: grass and wooden_pickaxe
DigIndexes == {0, 4}

\* the state after handleOverlayClick, a mouse move and the first frame
InitDig ==
    LET locked == [isLocked |-> TRUE,
                   moveState |-> [forward |-> FALSE, backward |-> FALSE,
                                  left |-> FALSE, right |-> FALSE],
                   jump |-> FALSE, sprint |-> FALSE, listening |-> TRUE, held |-> NoKey,
                   impulses |-> 0]
        spawn == [aim |-> Aim(<<0, 0, 0>>, Up),
                  position |-> <<0, findSafeSpawnY(InitMeshWorld, 0, 0), 0>>]
        moved == physicsUpdate([onGround |-> FALSE], locked, spawn, InitMeshWorld)
    IN  /\ meshWorld = InitMeshWorld
        /\ instWorld = InitInstWorld
        /\ inventory = populateHotbar(NewInventory(HOTBAR_SIZE), DEFAULT_HOTBAR)
        /\ mining = NewMining
        /\ input = moved.input
        /\ ui = [isConsoleOpen |-> FALSE, commandInput |-> Text(FALSE, <<>>)]
        /\ camera = moved.camera
        /\ physics = moved.physics
        /\ loop = [running |-> TRUE,
                   selector |-> updateSelector([visible |-> FALSE, position |-> <<0, 0, 0>>],
                                               getObjects(InitMeshWorld), moved.camera)]
        /\ last = Event("init", <<>>, 0)
        /\ budget = [places |-> 0, gives |-> 0, steps |-> MaxDigSteps]

NextDig ==
    \/ \E code \in DigCodes, repeat \in BOOLEAN : KeyDown(code, repeat)
    \/ \E deltaY \in WheelDeltas : Wheel(deltaY)
    \/ PointerUnlock
    \/ OverlayClick
    \/ \E index \in DigIndexes : HotbarClick(index)
    \/ \E button \in {0} : MouseDown(button)
    \/ \E button \in {0} : MouseUp(button)
    \/ \E delta \in Deltas : Tick(delta)

SpecDig == InitDig /\ [][NextDig]_vars

\* C26: a frame never removes a stone block by mining while the selected
\* hotbar stack is not a tool, whatever selection changes (digit key, wheel,
\* hotbar click) happened since the session was started.
C26_StoneNeedsToolAtCompletion ==
    [][(last'.op = "tick" /\ last'.ret # NullTarget /\ last'.ret.type = "stone")
         => (getSelectedStack(inventory) # Null /\ isTool(getSelectedStack(inventory).item))]_vars

-----------------------------------------------------------------------------
(* SpecPlace: the player stands on the grass block (-1,1,0), away from the  *)
(* cell borders, with the pointer locked; camera turns, selection changes   *)
(* and right-button presses follow in any order.                            *)

\* events of one explored run
MaxPlaceSteps == 5

\* the block faces the player looks at: the block under the feet, the block
\* placed on it, the stone block beside
PlaceAims ==
    {NoAim, Aim(<<-10, 10, 0>>, Up), Aim(<<-10, 20, 0>>, Up), Aim(<<0, 0, 0>>, Up)}

InitPlace ==
    /\ meshWorld = InitMeshWorld
    /\ instWorld = InitInstWorld
    /\ inventory = populateHotbar(NewInventory(HOTBAR_SIZE), DEFAULT_HOTBAR)
    /\ mining = NewMining
    /\ input = [isLocked |-> TRUE,
                moveState |-> [forward |-> FALSE, backward |-> FALSE,
                               left |-> FALSE, right |-> FALSE],
                jump |-> FALSE, sprint |-> FALSE, listening |-> TRUE, held |-> NoKey,
                impulses |-> 0]
    /\ ui = [isConsoleOpen |-> FALSE, commandInput |-> Text(FALSE, <<>>)]
    /\ camera = [aim |-> NoAim, position |-> <<-5, 20 + EYE_HEIGHT, 5>>]
    /\ physics = [onGround |-> TRUE]
    /\ loop = [running |-> TRUE, selector |-> [visible |-> FALSE, position |-> <<0, 0, 0>>]]
    /\ last = Event("init", <<>>, 0)
    /\ budget = [places |-> MaxPlaceSteps, gives |-> 0, steps |-> MaxPlaceSteps]

NextPlace ==
    \/ \E aim \in PlaceAims : MouseMove(aim)
    \/ \E code \in DigCodes, repeat \in BOOLEAN : KeyDown(code, repeat)
    \/ \E deltaY \in WheelDeltas : Wheel(deltaY)
    \/ \E button \in {2} : MouseDown(button)

SpecPlace == InitPlace /\ [][NextPlace]_vars

\* C27: a right-button press takes one item from the selected stack exactly
\* when it added a block to the world; when it added none (empty or tool
\* stack, no hit, addBlock a no-op) the inventory is unchanged.
C27_ConsumesIffPlaced ==
    [][(last'.op = "mousedown" /\ last'.args = <<2>>)
         => IF DOMAIN meshWorld'.world # DOMAIN meshWorld.world
            THEN inventory' = consumeSelected(inventory, 1)
            ELSE inventory' = inventory]_vars

-----------------------------------------------------------------------------
(* Claims about the console and the break sessions (checked under Spec,     *)
(* SpecDig and SpecFrame)                                                   *)

\* C28: a keydown that arrives while the console is open leaves the console
\* state (open flag and pending command text) and the selected slot as they
\* were: T and / do not re-open the console, digits do not select a slot.
C28_ConsoleKeysInert ==
    [][(last'.op = "keydown" /\ ui.isConsoleOpen)
         => (ui' = ui /\ inventory'.selectedSlot = inventory.selectedSlot)]_vars

\* C29: a break session reports at most one broken block.  A frame reports
\* the target exactly when a session is running and reaches its
\* requiredTime in that frame, and the system is idle afterwards; any other
\* frame, and every other event (a button release included), reports
\* nothing and removes nothing.
C29_OneBreakPerSession ==
    [][IF last'.op = "tick" /\ mining.breaking
          /\ mining.progress + last'.args[1] >= mining.requiredTime
       THEN /\ last'.ret = mining.target
            /\ mining' = [mining EXCEPT !.breaking = FALSE, !.progress = 0, !.target = NullTarget]
            /\ DOMAIN meshWorld'.world = DOMAIN meshWorld.world \ {mining.target.position}
       ELSE /\ last'.op = "tick" => last'.ret = NullTarget
            /\ DOMAIN meshWorld'.world = DOMAIN meshWorld.world
            /\ (last'.op = "mouseup" /\ last'.args = <<0>>)
                 => mining' = [mining EXCEPT !.breaking = FALSE, !.progress = 0,
                                              !.target = NullTarget]]_vars

\* the stone block has been broken and a later frame, with the system idle,
\* reported nothing
C29_Witness ==
    /\ last.op = "tick"
    /\ last.ret = NullTarget
    /\ <<0, 0, 0>> \notin DOMAIN meshWorld.world
    /\ ~mining.breaking
    /\ TotalCount(inventory, "stone") = 33

\* the world holds a block of the target's type at the target's position
TargetInWorld(w, target) ==
    /\ target.position \in DOMAIN w.world
    /\ w.world[target.position].type = target.type

\* C30: while the game runs, whenever a break session is running the world
\* holds a block of the stored type at the stored target position, before
\* and after every event and frame; a frame that reports a broken block
\* removes exactly that block, which was in the world with the reported type.
C30_TargetStaysInWorld ==
    [][/\ (loop.running /\ mining.breaking) => TargetInWorld(meshWorld, mining.target)
       /\ (loop'.running /\ mining'.breaking) => TargetInWorld(meshWorld', mining'.target)
       /\ (last'.op = "tick" /\ last'.ret # NullTarget)
            => /\ TargetInWorld(meshWorld, last'.ret)
               /\ DOMAIN meshWorld'.world = DOMAIN meshWorld.world \ {last'.ret.position}]_vars

\* a block was placed while a session with progress was running
C30_Witness ==
    /\ last.op = "mousedown"
    /\ last.args = <<2>>
    /\ last.ret
    /\ mining.breaking
    /\ mining.progress > 0
    /\ inventory.selectedSlot # 0

====
